---- MODULE Spec2Model ----
(***************************************************************************)
(* Orchestration core of the nw_wrld projector (src/projector/Projector.js)*)
(* as a state machine: ElementPool, module class cache, track activation / *)
(* deactivation, matrix materialisation, method execution and the channel  *)
(* router, under JavaScript's run-to-completion scheduling: every handler  *)
(* runs synchronously up to its first await; continuations of settled      *)
(* promises are microtasks (FIFO) that all run before the next macrotask   *)
(* (an IPC message, a module import settling, an animation frame).         *)
(***************************************************************************)
EXTENDS Integers, Sequences, FiniteSets, TLC

\* ---------------------------------------------------------------- bounds
MaxMsgs == 3        \* IPC messages delivered in one behaviour
MaxLiveMsgs == 2    \* IPC messages delivered in one behaviour of LiveSpecSeq
MaxDim == 2         \* largest rows / cols value of the matrix drawn in Init
MaxExcl == 2        \* longest excludedCells list drawn in Init
MaxPlacements == 2  \* placements of the track drawn for the channel router
MaxBound == 1       \* randomRange bounds drawn lie in -MaxBound..MaxBound
MaxGrid == 6        \* largest rows / cols value a matrix option is drawn with
MaxLines == 3       \* log lines handed to queueDebugLog in one behaviour
MaxDraws == 2       \* length of the cycle of values Math.random() returns
MaxCalls == 3       \* method calls one module instance receives
MaxPoolOps == 5     \* calls of getElement and releaseElement on the pool alone

\* ------------------------------------------------------------- constants
Null == ""                       \* JavaScript null / undefined reference
NoSurface == 0                   \* this.elem = null
ModuleFiles == {"T1", "T2"}      \* files present under ./modules/
FragileTypes == {"T2"}           \* module types whose destroy() may throw
TrackNames == {"A", "B", "X"}    \* names a track-activate message may carry
Channels == {"3", "4"}           \* channel numbers a trigger may carry

\* ------------------------------------------------------------- utilities
SeqToSet(q) == {q[i] : i \in 1..Len(q)}

Put(f, k, v) == (k :> v) @@ f

Get(f, k, default) == IF k \in DOMAIN f THEN f[k] ELSE default

EmptyMap == [k \in {} |-> <<>>]

Digit == <<"0", "1", "2", "3", "4", "5", "6", "7", "8", "9">>

\* `${row}-${col}` for 0 <= row, col <= 9
CellKey(row, col) == Digit[row + 1] \o "-" \o Digit[col + 1]

\* ------------------------------------------------------- catalog on disk
MethodCall(n, opts) == [name |-> n, options |-> opts]

MatrixObj(r, c, ex) == [kind |-> "obj", rows |-> r, cols |-> c, excludedCells |-> ex]

MatrixArr(r, c) == [kind |-> "arr", rows |-> r, cols |-> c, excludedCells |-> <<>>]

MatrixCall(m) ==
  MethodCall("matrix", << [name |-> "matrix", value |-> m],
                          [name |-> "border", value |-> FALSE] >>)

\* track "A": placement a1 (T1) is a grid with constructor call setColor and
\* channel "3" -> methodA; placement a2 (T2) has no channel methods.
TrackA(m) ==
  [ name |-> "A",
    modules |-> << [id |-> "a1", type |-> "T1"], [id |-> "a2", type |-> "T2"] >>,
    modulesData |->
      [ i \in {"a1", "a2"} |->
          IF i = "a1"
          THEN [ constructor |->
                   << MatrixCall(m),
                      MethodCall("setColor", << [name |-> "color", value |-> "#ff0000"] >>) >>,
                 methods |-> [c \in {"3"} |-> << MethodCall("methodA", <<>>) >>] ]
          ELSE [ constructor |-> << MatrixCall(MatrixArr(1, 1)) >>,
                 methods |->
                   [c \in {"4"} |->
                      << MethodCall("setColor", << [name |-> "color", value |-> "#00ff00"] >>) >>] ] ] ]

TrackB ==
  [ name |-> "B",
    modules |-> << [id |-> "b1", type |-> "T1"] >>,
    modulesData |->
      [ i \in {"b1"} |->
          [ constructor |->
               << MatrixCall(MatrixObj(1, 1, <<>>)),
                  MethodCall("setColor", << [name |-> "color", value |-> "#0000ff"] >>) >>,
            methods |-> [c \in {"3"} |-> << MethodCall("methodB", <<>>) >>] ] ] ]

\* the Intro scenario: matrix {rows: 2, cols: 2, excludedCells: ["1-1"]}
IntroMatrix == MatrixObj(2, 2, << "1-1" >>)

\* the module data the dashboard sends with preview-module for a module
PreviewData(moduleName) ==
  IF moduleName = "T1"
  THEN [ constructor |->
           << MatrixCall(MatrixArr(1, 2)),
              MethodCall("setColor", << [name |-> "color", value |-> "#00ff00"] >>) >> ]
  ELSE [ constructor |-> << MatrixCall(MatrixArr(1, 1)) >> ]

\* methods the module classes implement besides those of ModuleBase
ClassMethods(type) ==
  IF type = "T1" THEN {"setColor", "methodA", "methodB"} ELSE {"setColor"}

\* ------------------------------------------------------------------ state
VARIABLES
  userData,               \* Projector.userData: the tracks of the loaded set
  activeTrack,            \* Projector.activeTrack (name of the track, or Null)
  activeModules,          \* Projector.activeModules: placement id -> instances
  activeChannelHandlers,  \* Projector.activeChannelHandlers
  moduleClassCache,       \* Projector.moduleClassCache: type -> loader promise
  isDeactivating,         \* Projector.isDeactivating
  pool,                   \* ElementPool.pool: module type -> idle surfaces
  dom,                    \* children of the .modules container, document order
  surfaces,               \* every surface ever cloned from the template
  insts,                  \* every module instance ever constructed
  loadWaiters,            \* reactions waiting on a pending loader promise
  microtasks,             \* the microtask queue
  rafCallbacks,           \* callbacks registered with requestAnimationFrame
  rafRunning,             \* callbacks of the frame that is being run
  acts,                   \* Promise.all state of every handleTrackSelection
  readySignals,           \* projector-ready messages sent by activations
  hist,                   \* IPC messages received so far
  trackPool,              \* pool contents when the active track was activated
  fresh,                  \* surfaces cloned since the active track was activated
  lastDeact,              \* what the last deactivation of a track did
  rejections,             \* promises rejected with nobody handling them
  grid,                   \* the matrix each materialised placement was built from
  loads,                  \* imports started and imports failed, per module type
  random,                 \* what Math.random() returns, call after call
  drawn,                  \* calls of Math.random() made so far
  previewModuleName,      \* Projector.previewModuleName
  optIn,                  \* an option entry handed to option resolution
  optOut,                 \* what option resolution made of it
  debugOverlayActive,     \* Projector.debugOverlayActive
  debugLogQueue,          \* Projector.debugLogQueue
  debugLogTimeout,        \* Projector.debugLogTimeout: it holds a timer handle
  debugTimers,            \* flush timers set and neither fired nor cleared
  debugSent,              \* debug-log messages sent to the dashboard
  debugLines,             \* every line handed to queueDebugLog so far
  moduleElem,             \* ModuleBase.elem of one module instance
  style,                  \* the style of the surface that instance was built on
  timeouts,               \* callbacks the instance has pending with setTimeout
  destroyed,              \* destroy() has been called on the instance
  methodCalls             \* method calls the instance has received

vars ==
  << userData, activeTrack, activeModules, activeChannelHandlers,
     moduleClassCache, isDeactivating, pool, dom, surfaces, insts,
     loadWaiters, microtasks, rafCallbacks, rafRunning, acts, readySignals,
     hist, trackPool, fresh, lastDeact, rejections, grid, loads, random, drawn,
     previewModuleName, optIn, optOut,
     debugOverlayActive, debugLogQueue, debugLogTimeout, debugTimers, debugSent,
     debugLines, moduleElem, style, timeouts, destroyed, methodCalls >>

\* the variables of the module instance looked at on its own
moduleVars == << moduleElem, style, timeouts, destroyed, methodCalls >>

\* the variables of the debug log
debugVars ==
  << debugOverlayActive, debugLogQueue, debugLogTimeout, debugTimers, debugSent,
     debugLines >>

\* the variables track activation, materialisation and dispatch work on
projectorVars ==
  << userData, activeTrack, activeModules, activeChannelHandlers,
     moduleClassCache, isDeactivating, pool, dom, surfaces, insts,
     loadWaiters, microtasks, rafCallbacks, rafRunning, acts, readySignals,
     trackPool, fresh, lastDeact, rejections, grid, loads, random, drawn,
     previewModuleName >>

\* the state as one record, so that a handler is a function from state to state
St ==
  [ userData |-> userData, activeTrack |-> activeTrack,
    activeModules |-> activeModules,
    activeChannelHandlers |-> activeChannelHandlers,
    moduleClassCache |-> moduleClassCache, isDeactivating |-> isDeactivating,
    pool |-> pool, dom |-> dom, surfaces |-> surfaces, insts |-> insts,
    loadWaiters |-> loadWaiters, microtasks |-> microtasks,
    rafCallbacks |-> rafCallbacks, rafRunning |-> rafRunning, acts |-> acts,
    readySignals |-> readySignals, hist |-> hist, trackPool |-> trackPool,
    fresh |-> fresh, lastDeact |-> lastDeact, rejections |-> rejections,
    grid |-> grid, loads |-> loads, random |-> random, drawn |-> drawn,
    previewModuleName |-> previewModuleName ]

Commit(s) ==
  /\ userData' = s.userData
  /\ activeTrack' = s.activeTrack
  /\ activeModules' = s.activeModules
  /\ activeChannelHandlers' = s.activeChannelHandlers
  /\ moduleClassCache' = s.moduleClassCache
  /\ isDeactivating' = s.isDeactivating
  /\ pool' = s.pool
  /\ dom' = s.dom
  /\ surfaces' = s.surfaces
  /\ insts' = s.insts
  /\ loadWaiters' = s.loadWaiters
  /\ microtasks' = s.microtasks
  /\ rafCallbacks' = s.rafCallbacks
  /\ rafRunning' = s.rafRunning
  /\ acts' = s.acts
  /\ readySignals' = s.readySignals
  /\ hist' = s.hist
  /\ trackPool' = s.trackPool
  /\ fresh' = s.fresh
  /\ lastDeact' = s.lastDeact
  /\ rejections' = s.rejections
  /\ grid' = s.grid
  /\ loads' = s.loads
  /\ random' = s.random
  /\ drawn' = s.drawn
  /\ previewModuleName' = s.previewModuleName
  /\ UNCHANGED << optIn, optOut, debugVars, moduleVars >>

\* find(this.userData, { name: trackName })
HasTrack(s, trackName) == \E i \in 1..Len(s.userData) : s.userData[i].name = trackName

FindTrack(s, trackName) ==
  s.userData[CHOOSE i \in 1..Len(s.userData) :
               /\ s.userData[i].name = trackName
               /\ \A j \in 1..(i - 1) : s.userData[j].name # trackName]

\* a suspended async function: what it resumes as, and its local variables
Job(kind, track, id, src) ==
  [ kind |-> kind, track |-> track, id |-> id, src |-> src, act |-> 0,
    ok |-> TRUE, moduleType |-> Null, rows |-> 1, cols |-> 1, excl |-> <<>>,
    elems |-> <<>>, made |-> <<>> ]

\* ------------------------------------------------------------ ElementPool
\* getElement: pop an idle surface of the type, or clone the template
GetElement(s, moduleName) ==
  IF Len(Get(s.pool, moduleName, <<>>)) = 0
  THEN [ s EXCEPT
           !.surfaces = Append(@, [cls |-> moduleName, instanceId |-> Null, cssText |-> Null]),
           !.fresh = @ \cup {Len(s.surfaces) + 1} ]
  ELSE [ s EXCEPT !.pool[moduleName] = SubSeq(@, 1, Len(@) - 1) ]

\* the bucket read from its other end
GotElement_Oldest(s, moduleName) ==
  IF Len(Get(s.pool, moduleName, <<>>)) = 0
  THEN Len(s.surfaces) + 1
  ELSE s.pool[moduleName][1]

\* the surface GetElement hands out in state s
GotElement(s, moduleName) ==
  IF Len(Get(s.pool, moduleName, <<>>)) = 0
  THEN Len(s.surfaces) + 1
  ELSE s.pool[moduleName][Len(s.pool[moduleName])]

\* releaseElement: push the surface on the bucket named by its class
ReleaseElement(s, elem) ==
  LET moduleName == s.surfaces[elem].cls
  IN [ s EXCEPT !.pool = Put(@, moduleName, Append(Get(@, moduleName, <<>>), elem)) ]

RECURSIVE ReleaseAll(_, _)
ReleaseAll(s, elems) ==
  IF elems = <<>> THEN s
  ELSE ReleaseAll(ReleaseElement(s, Head(elems)), Tail(elems))

\* ------------------------------------------------------- module registry
\* loadModuleClass as awaited by `waiter`: a cached loader is reused, a
\* missing one starts an import; the waiter resumes when the loader settles
LoadModuleClass(s, moduleType, waiter) ==
  IF moduleType \in DOMAIN s.moduleClassCache
  THEN IF s.moduleClassCache[moduleType] = "loaded"
       THEN [ s EXCEPT !.microtasks = Append(@, [waiter EXCEPT !.ok = TRUE]) ]
       ELSE [ s EXCEPT !.loadWaiters =
                Put(@, moduleType, Append(Get(@, moduleType, <<>>), waiter)) ]
  ELSE [ s EXCEPT !.moduleClassCache = Put(@, moduleType, "pending"),
                  !.loadWaiters = Put(@, moduleType, << waiter >>),
                  !.loads.started = Put(@, moduleType, Get(@, moduleType, 0) + 1) ]

\* --------------------------------------------------------- module instance
\* ModuleBase.destroy, reached through the subclass's destroy: a subclass
\* whose own cleanup throws never reaches super.destroy()
DestroyInstance(s, i, throws) ==
  IF throws
  THEN [ s EXCEPT !.insts[i].destroyCalls = @ + 1 ]
  ELSE [ s EXCEPT !.insts[i].destroyCalls = @ + 1,
                  !.insts[i].elem = NoSurface,
                  !.dom = SelectSeq(@, LAMBDA e : e # s.insts[i].elem) ]

\* forEach(instances, destroy) with each call in its own try/catch
RECURSIVE DestroyEach(_, _, _)
DestroyEach(s, list, thr) ==
  IF list = <<>> THEN s
  ELSE DestroyEach(DestroyInstance(s, Head(list), Head(list) \in thr), Tail(list), thr)

\* forEach(instances, destroy) with no try/catch: the first throw ends the loop
RECURSIVE DestroyUntilThrow(_, _, _)
DestroyUntilThrow(s, list, thr) ==
  IF list = <<>> THEN s
  ELSE IF Head(list) \in thr
       THEN DestroyInstance(s, Head(list), TRUE)
       ELSE DestroyUntilThrow(DestroyInstance(s, Head(list), FALSE), Tail(list), thr)

\* instances whose destroy() can throw when called now
MayThrow(s) ==
  { i \in 1..Len(s.insts) :
      /\ s.insts[i].type \in FragileTypes
      /\ \E k \in DOMAIN s.activeModules : i \in SeqToSet(s.activeModules[k]) }

\* all instances of the registry, placement after placement
RECURSIVE Flatten(_, _)
Flatten(f, keys) ==
  IF keys = {} THEN <<>>
  ELSE LET k == CHOOSE x \in keys : TRUE
       IN f[k] \o Flatten(f, keys \ {k})

\* ---------------------------------------------------------- deactivation
\* the destroy loop without its try/catch: a throw leaves the teardown undone
DeactivateActiveTrack_NoCatch(s, thr) ==
  IF s.activeTrack = Null \/ s.isDeactivating THEN s
  ELSE LET list == Flatten(s.activeModules, DOMAIN s.activeModules)
           s1 == DestroyUntilThrow(s, list, thr)
           s2 == ReleaseAll([s1 EXCEPT !.dom = <<>>], s1.dom)
       IN IF SeqToSet(list) \cap thr # {}
          THEN [ s1 EXCEPT !.isDeactivating = TRUE ]
          ELSE [ s2 EXCEPT
                   !.activeModules = EmptyMap,
                   !.activeTrack = Null,
                   !.activeChannelHandlers = EmptyMap,
                   !.grid = EmptyMap,
                   !.lastDeact = [ n |-> @.n + 1, track |-> s.activeTrack,
                                   before |-> s.trackPool, fresh |-> s.fresh,
                                   after |-> s2.pool, destroyed |-> SeqToSet(list) ] ]

\* deactivateActiveTrack, lines 473-515
DeactivateActiveTrack(s, thr) ==
  IF s.activeTrack = Null \/ s.isDeactivating THEN s
  ELSE LET s1 == DestroyEach(s, Flatten(s.activeModules, DOMAIN s.activeModules), thr)
           s2 == ReleaseAll([s1 EXCEPT !.dom = <<>>], s1.dom)
       IN [ s2 EXCEPT
              !.activeModules = EmptyMap,
              !.activeTrack = Null,
              !.activeChannelHandlers = EmptyMap,
              !.isDeactivating = FALSE,
              !.grid = EmptyMap,
              !.lastDeact = [ n |-> @.n + 1, track |-> s.activeTrack,
                              before |-> s.trackPool, fresh |-> s.fresh,
                              after |-> s2.pool,
                              destroyed |-> SeqToSet(Flatten(s.activeModules, DOMAIN s.activeModules)) ] ]

\* --------------------------------------------------------- channel router
\* the map built without the test for an empty method list
RECURSIVE BuildFrom_AnyList(_, _, _)
BuildFrom_AnyList(track, i, map) ==
  IF i > Len(track.modules) THEN map
  ELSE LET instanceId == track.modules[i].id
           methodEntries ==
             IF instanceId \in DOMAIN track.modulesData
             THEN track.modulesData[instanceId].methods ELSE EmptyMap
           hit == DOMAIN methodEntries
           target == [instanceId |-> instanceId, moduleType |-> track.modules[i].type]
       IN BuildFrom_AnyList(track, i + 1,
            [ c \in DOMAIN map \cup hit |->
                IF c \in hit THEN Append(Get(map, c, <<>>), target) ELSE map[c] ])

\* buildChannelHandlerMap, lines 682-702, from placement i on
RECURSIVE BuildFrom(_, _, _)
BuildFrom(track, i, map) ==
  IF i > Len(track.modules) THEN map
  ELSE LET instanceId == track.modules[i].id
           methodEntries ==
             IF instanceId \in DOMAIN track.modulesData
             THEN track.modulesData[instanceId].methods ELSE EmptyMap
           hit == { c \in DOMAIN methodEntries : Len(methodEntries[c]) > 0 }
           target == [instanceId |-> instanceId, moduleType |-> track.modules[i].type]
       IN BuildFrom(track, i + 1,
            [ c \in DOMAIN map \cup hit |->
                IF c \in hit THEN Append(Get(map, c, <<>>), target) ELSE map[c] ])

BuildChannelHandlerMap(track) == BuildFrom(track, 1, EmptyMap)

\* ------------------------------------------------------ option resolution
\* Math.random() returns one of k/RandDen, k in 0..RandDen-1: fine enough for
\* floor(r * range) to reach every value of the widest integer range drawn
RandDen == 2 * (2 * MaxBound + 1)

\* numbers are counted in units of 1/(2 * RandDen), in which the halves drawn
\* as bounds and everything r * (max - min) + min makes of them are whole
Unit == 2 * RandDen

\* JavaScript values
Num(n) == [t |-> "num", v |-> n]

Str == [t |-> "str", v |-> 0]

Undefined == [t |-> "undef", v |-> 0]

\* the number h/2
Half(h) == Num(h * RandDen)

\* typeof x === "number"
IsNumber(x) == x.t = "num"

\* Number.isInteger(x)
IsInteger(x) == x.t = "num" /\ x.v % Unit = 0

\* Math.floor(r * n) for r = k/RandDen and a count n >= 0
FloorRandom(k, n) == (k * n) \div RandDen

\* the range counted without its upper bound: max - min instead of max - min + 1
RandomInteger_Exclusive(k, min, max) ==
  Num(FloorRandom(k, (max.v - min.v) \div Unit) * Unit + min.v)

\* Math.floor(Math.random() * (max - min + 1)) + min, for integers min <= max
RandomInteger(k, min, max) ==
  Num(FloorRandom(k, (max.v - min.v) \div Unit + 1) * Unit + min.v)

\* Math.random() * (max - min) + min
RandomFloat(k, min, max) == Num(k * ((max.v - min.v) \div RandDen) + min.v)

\* randomRange && Array.isArray(randomRange) && randomRange.length === 2
IsPair(rr) == rr.kind = "arr" /\ Len(rr.items) = 2

\* an inverted range rejected like a non-numeric one instead of swapped
ResolveOption_RejectInverted(entry, k) ==
  IF IsPair(entry.randomRange)
  THEN LET min == entry.randomRange.items[1]
           max == entry.randomRange.items[2]
       IN IF ~IsNumber(min) \/ ~IsNumber(max) \/ min.v > max.v THEN entry.value
          ELSE IF IsInteger(min) /\ IsInteger(max)
               THEN RandomInteger(k, min, max)
               ELSE RandomFloat(k, min, max)
  ELSE entry.value

\* executeMethods, lines 745-767: the value one option resolves to when
\* Math.random() returns k/RandDen
ResolveOption(entry, k) ==
  IF IsPair(entry.randomRange)
  THEN LET min0 == entry.randomRange.items[1]
           max0 == entry.randomRange.items[2]
           swap == min0.v > max0.v
           min == IF swap THEN max0 ELSE min0
           max == IF swap THEN min0 ELSE max0
       IN IF ~IsNumber(min0) \/ ~IsNumber(max0) THEN entry.value
          ELSE IF IsInteger(min) /\ IsInteger(max)
               THEN RandomInteger(k, min, max)
               ELSE RandomFloat(k, min, max)
  ELSE entry.value

\* ------------------------------------------------------- method execution
\* the test of line 793 left out: the method is invoked whether it exists or not
HasMethod_Always(type, methodName) == TRUE

\* isFunction(instance[methodName])
HasMethod(type, methodName) == methodName \in ClassMethods(type)

\* the randomRange an option of the catalog declares, if any
RangeOf(o) ==
  IF "randomRange" \in DOMAIN o THEN o.randomRange ELSE [kind |-> "absent", items |-> <<>>]

\* lines 746-749: resolving the option calls Math.random()
UsesRandom(o) ==
  /\ IsPair(RangeOf(o))
  /\ IsNumber(RangeOf(o).items[1]) /\ IsNumber(RangeOf(o).items[2])

\* the calls of Math.random() made for the first n options of a list
Uses(methodOptions, n) ==
  Cardinality({ i \in 1..n : UsesRandom(methodOptions[i]) })

\* the calls of Math.random() made for the methods before the k-th
RECURSIVE UsesBefore(_, _)
UsesBefore(otherMethods, k) ==
  IF k <= 1 THEN 0
  ELSE UsesBefore(otherMethods, k - 1)
         + Uses(otherMethods[k - 1].options, Len(otherMethods[k - 1].options))

\* what the n-th call of Math.random() from now returns
RandomAt(s, n) == s.random[((s.drawn + n) % Len(s.random)) + 1]

\* fromPairs(map(methodOptions, ...)), lines 744-768, after `off` calls of
\* Math.random() made earlier in the batch
ResolveOptions(s, off, methodOptions) ==
  [ i \in 1..Len(methodOptions) |->
      << methodOptions[i].name,
         ResolveOption([ value |-> methodOptions[i].value,
                         randomRange |-> RangeOf(methodOptions[i]) ],
                       RandomAt(s, off + Uses(methodOptions, i - 1))) >> ]

\* the options resolved anew for every instance of the snapshot
OptionsFor_PerInstance(s, off, methodOptions, pos) ==
  ResolveOptions(s, off + pos - 1, methodOptions)

\* lines 744 and 794: the options the instance at position pos of the
\* snapshot is called with are the ones resolved before the instances are
\* gone through
OptionsFor(s, off, methodOptions, pos) == ResolveOptions(s, off, methodOptions)

\* the position of instance i in the snapshot
Pos(moduleInstances, i) == CHOOSE p \in 1..Len(moduleInstances) : moduleInstances[p] = i

IsMatrix(method) == method.name = "matrix"

NotMatrix(method) == method.name # "matrix"

\* the calls one instance receives from the batch, in the order of the batch
CallsFor(s, type, otherMethods, src, pos) ==
  LET has == SelectSeq([ k \in 1..Len(otherMethods) |-> k ],
                       LAMBDA k : HasMethod(type, otherMethods[k].name))
  IN [ n \in 1..Len(has) |->
         [ name |-> otherMethods[has[n]].name,
           options |-> OptionsFor(s, UsesBefore(otherMethods, has[n]),
                                  otherMethods[has[n]].options, pos),
           src |-> src ] ]

\* some invocation of the batch throws: the instance is one of thr and its
\* class implements one of the methods
Throws(s, otherMethods, moduleInstances, thr) ==
  \E i \in SeqToSet(moduleInstances) \cap thr :
    \E k \in 1..Len(otherMethods) : HasMethod(s.insts[i].type, otherMethods[k].name)

\* the fan-out reduced to the first instance of the snapshot
RunOther_FirstOnly(s, otherMethods, moduleInstances, src, thr) ==
  [ s EXCEPT !.insts =
      [ i \in DOMAIN @ |->
          IF moduleInstances # <<>> /\ i = moduleInstances[1]
          THEN [ @[i] EXCEPT !.calls =
                   @ \o CallsFor(s, s.insts[i].type, otherMethods, src, Pos(moduleInstances, i)) ]
          ELSE @[i] ],
    !.drawn = @ + UsesBefore(otherMethods, Len(otherMethods) + 1),
    !.rejections = IF Throws(s, otherMethods, moduleInstances, thr) THEN @ + 1 ELSE @ ]

\* executeMethods, lines 742-815: the two nested maps start every call on
\* every instance of the snapshot before anything is awaited; a call that
\* throws rejects its own promise, and through the two Promise.all the
\* promise of executeMethods
RunOther(s, otherMethods, moduleInstances, src, thr) ==
  [ s EXCEPT !.insts =
      [ i \in DOMAIN @ |->
          IF i \in SeqToSet(moduleInstances)
          THEN [ @[i] EXCEPT !.calls =
                   @ \o CallsFor(s, s.insts[i].type, otherMethods, src, Pos(moduleInstances, i)) ]
          ELSE @[i] ],
    !.drawn = @ + UsesBefore(otherMethods, Len(otherMethods) + 1),
    !.rejections = IF Throws(s, otherMethods, moduleInstances, thr) THEN @ + 1 ELSE @ ]

\* get(track.modulesData, [instanceId, "constructor"])
ConstructorMethods(track, instanceId) ==
  IF instanceId \in DOMAIN track.modulesData
  THEN track.modulesData[instanceId].constructor ELSE <<>>

\* get(moduleData.methods, channelNumber)
ChannelMethods(track, instanceId, channelNumber) ==
  IF /\ instanceId \in DOMAIN track.modulesData
     /\ channelNumber \in DOMAIN track.modulesData[instanceId].methods
  THEN track.modulesData[instanceId].methods[channelNumber] ELSE <<>>

\* instanceId.replace(/^preview_/, "")
StripPreview(instanceId) ==
  IF \E t \in ModuleFiles : instanceId = "preview_" \o t
  THEN CHOOSE t \in ModuleFiles : instanceId = "preview_" \o t
  ELSE instanceId

\* the method list an executeMethods call was given
JobMethods(s, job) ==
  IF job.src = "preview" THEN PreviewData(StripPreview(job.id)).constructor
  ELSE IF job.src = "ctor"
       THEN ConstructorMethods(FindTrack(s, job.track), job.id)
       ELSE ChannelMethods(FindTrack(s, job.track), job.id, job.src)

\* ------------------------------------------------------------ grid layout
\* rows: m.rows || 1
OrOne(n) == IF n = 0 THEN 1 ELSE n

\* the option named "matrix" of the matrix call, if it has one
MatrixValue(methodOptions) ==
  LET hits == SelectSeq(methodOptions, LAMBDA o : o.name = "matrix")
  IN IF hits = <<>> THEN [kind |-> "none", rows |-> 0, cols |-> 0, excludedCells |-> <<>>]
     ELSE hits[Len(hits)].value

\* updateMatrix, lines 826-843
MatrixOptions(methodOptions) ==
  LET m == MatrixValue(methodOptions)
  IN IF m.kind = "arr"
     THEN [rows |-> OrOne(m.rows), cols |-> OrOne(m.cols), excludedCells |-> <<>>]
     ELSE IF m.kind = "obj"
          THEN [rows |-> OrOne(m.rows), cols |-> OrOne(m.cols), excludedCells |-> m.excludedCells]
          ELSE [rows |-> 1, cols |-> 1, excludedCells |-> <<>>]

\* the row loop written `row < rows`: the last row is never laid out
Cells_OffByOne(rows, cols, excludedCells) ==
  LET all == [ k \in 1..((rows - 1) * cols) |-> << ((k - 1) \div cols) + 1, ((k - 1) % cols) + 1 >> ]
  IN SelectSeq(all, LAMBDA rc : CellKey(rc[1], rc[2]) \notin SeqToSet(excludedCells))

\* the two loops of lines 904-909: rows outer, columns inner, excluded skipped
Cells(rows, cols, excludedCells) ==
  LET all == [ k \in 1..(rows * cols) |-> << ((k - 1) \div cols) + 1, ((k - 1) % cols) + 1 >> ]
  IN SelectSeq(all, LAMBDA rc : CellKey(rc[1], rc[2]) \notin SeqToSet(excludedCells))

\* lines 852-857: the type of the placement in the active track
ModuleTypeOf(s, instanceId) ==
  LET mods == IF s.activeTrack = Null THEN <<>> ELSE FindTrack(s, s.activeTrack).modules
      hits == SelectSeq(mods, LAMBDA m : m.id = instanceId)
  IN IF hits # <<>> THEN hits[1].type ELSE StripPreview(instanceId)

\* lines 871-877: the placement's surfaces leave the container for the pool
ReleasePlacement(s, moduleType, instanceId) ==
  LET mine(e) == s.surfaces[e].cls = moduleType /\ s.surfaces[e].instanceId = instanceId
  IN ReleaseAll([s EXCEPT !.dom = SelectSeq(@, LAMBDA e : ~mine(e))],
                SelectSeq(s.dom, mine))

\* updateMatrix up to its first await (lines 820-883)
UpdateMatrixStart(s, job, methodOptions, thr) ==
  LET mo == MatrixOptions(methodOptions)
      moduleType == ModuleTypeOf(s, job.id)
      moduleInstances == Get(s.activeModules, job.id, <<>>)
      s1 == DestroyUntilThrow(s, moduleInstances, thr)
      s2 == ReleasePlacement(s1, moduleType, job.id)
      s3 == [s2 EXCEPT !.activeModules = Put(@, job.id, <<>>),
                       !.grid = [k \in DOMAIN @ \ {job.id} |-> @[k]]]
  IN IF SeqToSet(moduleInstances) \cap thr # {}
     THEN [s1 EXCEPT !.rejections = @ + 1]
     ELSE LoadModuleClass(s3, moduleType,
            [job EXCEPT !.kind = "matAfterLoad", !.moduleType = moduleType,
                        !.rows = mo.rows, !.cols = mo.cols, !.excl = mo.excludedCells])

RECURSIVE Gcd(_, _)
Gcd(a, b) == IF b = 0 THEN a ELSE Gcd(b, a % b)

\* the number n / d of a style, in percent, as a fraction in lowest terms
Percent(n, d) ==
  LET g == IF n = 0 THEN d ELSE Gcd(n, d)
  IN [num |-> n \div g, den |-> d \div g]

\* top and left taken from the column and the row
CssText_Transposed(rows, cols, row, col) ==
  [ width |-> Percent(100, cols), height |-> Percent(100, rows),
    top |-> Percent(100 * (col - 1), cols), left |-> Percent(100 * (row - 1), rows) ]

\* lines 900-901 and 918-928: the geometry written to the surface's style
CssText(rows, cols, row, col) ==
  [ width |-> Percent(100, cols), height |-> Percent(100, rows),
    top |-> Percent(100 * (row - 1), rows), left |-> Percent(100 * (col - 1), cols) ]

\* lines 904-932 for the cells left to lay out: acquire, tag, style, append
RECURSIVE AcquireCells(_, _, _, _)
AcquireCells(s, job, n, elems) ==
  IF n = 0 THEN [s EXCEPT !.rafCallbacks = Append(@, [job EXCEPT !.kind = "raf", !.elems = elems])]
  ELSE LET e == GotElement(s, job.moduleType)
           rc == Cells(job.rows, job.cols, job.excl)[Len(elems) + 1]
           s1 == GetElement(s, job.moduleType)
           s2 == [s1 EXCEPT !.surfaces[e].instanceId = job.id,
                            !.surfaces[e].cssText = CssText(job.rows, job.cols, rc[1], rc[2]),
                            !.dom = Append(SelectSeq(@, LAMBDA x : x # e), e)]
       IN AcquireCells(s2, job, n - 1, Append(elems, e))

\* updateMatrix from the settled load to the frame request (lines 884-947)
MatAfterLoad(s, job) ==
  IF ~job.ok
  THEN [s EXCEPT !.microtasks = Append(@, [job EXCEPT !.kind = "execOther"])]
  ELSE AcquireCells(s, job, Len(Cells(job.rows, job.cols, job.excl)), <<>>)

\* the frame callback, lines 940-946: one instance per surface
RafCallback(s, job) ==
  LET n == Len(s.insts)
      made == [ k \in 1..Len(job.elems) |-> n + k ]
      new == [ k \in 1..Len(job.elems) |->
                 [ type |-> job.moduleType, elem |-> job.elems[k], destroyCalls |-> 0,
                   calls |-> <<>>, placement |-> job.id, track |-> job.track ] ]
  IN [ s EXCEPT !.insts = @ \o new,
                !.microtasks = Append(@, [job EXCEPT !.kind = "matStore", !.made = made]) ]

\* updateMatrix after the frame, lines 949-976
MatStore(s, job, thr) ==
  LET s1 == [s EXCEPT !.activeModules = Put(@, job.id, job.made),
                      !.grid = Put(@, job.id, [track |-> job.track, rows |-> job.rows,
                                               cols |-> job.cols, excludedCells |-> job.excl])]
      filtered ==
        IF s.activeTrack = Null THEN <<>>
        ELSE SelectSeq(ConstructorMethods(FindTrack(s, s.activeTrack), job.id), NotMatrix)
      s2 == RunOther(s1, filtered, job.made, "ctor", thr)
  IN IF s2.rejections > s1.rejections THEN s2
     ELSE [s2 EXCEPT !.microtasks = Append(@, [job EXCEPT !.kind = "execOther"])]

\* executeMethods after the matrix step, lines 736-815
ExecOther(s, job, thr) ==
  LET otherMethods == SelectSeq(JobMethods(s, job), NotMatrix)
  IN IF job.id \in DOMAIN s.activeModules
     THEN RunOther(s, otherMethods, s.activeModules[job.id], job.src, thr)
     ELSE IF otherMethods = <<>> THEN s ELSE [s EXCEPT !.rejections = @ + 1]

\* executeMethods up to its first await, lines 704-742
ExecuteMethods(s, job, moduleInstances, thr) ==
  LET methods == JobMethods(s, job)
      matrixCalls == SelectSeq(methods, IsMatrix)
  IN IF matrixCalls # <<>>
     THEN UpdateMatrixStart(s, job, matrixCalls[Len(matrixCalls)].options, thr)
     ELSE RunOther(s, SelectSeq(methods, NotMatrix), moduleInstances, job.src, thr)

\* -------------------------------------------------------- track activation
\* line 585 for the placements from index i on: each awaits its module class
RECURSIVE StartPlacements(_, _, _, _)
StartPlacements(s, track, act, i) ==
  IF i > Len(track.modules) THEN s
  ELSE StartPlacements(
         LoadModuleClass(s, track.modules[i].type,
           [Job("plResume", track.name, track.modules[i].id, "ctor") EXCEPT !.act = act]),
         track, act, i + 1)

\* Promise.race in place of Promise.all: continue while one is still pending
AwaitAll_OnePending(pending) == pending <= 1

\* Promise.all(moduleInitPromises): continue once every promise has settled
AwaitAll(pending) == pending = 0

\* one placement's init promise settles; the activation resumes after the last
Settle(s, act) ==
  LET s1 == [s EXCEPT !.acts[act].pending = @ - 1]
  IN IF AwaitAll(s1.acts[act].pending)
     THEN [s1 EXCEPT !.microtasks =
             Append(@, [Job("actCont", s.acts[act].track, Null, "ctor") EXCEPT !.act = act])]
     ELSE s1

\* handleTrackSelection up to its first await, lines 517-617
\* the unknown name ignored
TrackNotFound_Ignore(s, thr) == s

\* lines 526-534: the name is not in the catalog
TrackNotFound(s, thr) == DeactivateActiveTrack(s, thr)

\* the test for the track being active left out
AlreadyActive_Never(s, trackName) == FALSE

\* line 546: this.activeTrack?.name === trackName
AlreadyActive(s, trackName) == s.activeTrack = trackName

\* handleTrackSelection, lines 517-630, up to the first await
HandleTrackSelection(s, trackName, thr) ==
  IF ~HasTrack(s, trackName) THEN TrackNotFound(s, thr)
  ELSE LET track == FindTrack(s, trackName)
           s1 == IF s.activeTrack # Null /\ s.activeTrack # trackName
                 THEN DeactivateActiveTrack(s, thr) ELSE s
           act == Len(s.acts) + 1
           s2 == [s1 EXCEPT
                    !.activeTrack = trackName,
                    !.activeChannelHandlers = BuildChannelHandlerMap(track),
                    !.acts = Append(@, [track |-> trackName, pending |-> Len(track.modules), failed |-> {},
                                        overlapped |-> {a \in 1..Len(@) : @[a].pending > 0}]),
                    !.trackPool = s1.pool,
                    !.fresh = {}]
       IN IF AlreadyActive(s1, trackName) THEN s1
          ELSE IF Len(track.modules) = 0
               THEN [s2 EXCEPT !.microtasks =
                       Append(@, [Job("actCont", trackName, Null, "ctor") EXCEPT !.act = act])]
               ELSE StartPlacements(s2, track, act, 1)

\* the catch of lines 591-594 rethrowing: a failed load rejects the
\* placement's promise and with it Promise.all
PlResume_Rethrow(s, job) ==
  IF ~job.ok
  THEN [s EXCEPT !.acts[job.act].failed = @ \cup {job.id}, !.rejections = @ + 1]
  ELSE LET constructorMethods == ConstructorMethods(FindTrack(s, job.track), job.id)
           s1 == [s EXCEPT !.activeModules = Put(@, job.id, <<>>)]
           s2 == IF Len(constructorMethods) > 0
                 THEN [s1 EXCEPT !.microtasks = Append(@, [job EXCEPT !.kind = "execStart"])]
                 ELSE s1
       IN Settle(s2, job.act)

\* a placement's async callback after its load settled, lines 586-612
PlResume(s, job) ==
  IF ~job.ok THEN Settle([s EXCEPT !.acts[job.act].failed = @ \cup {job.id}], job.act)
  ELSE LET constructorMethods == ConstructorMethods(FindTrack(s, job.track), job.id)
           s1 == [s EXCEPT !.activeModules = Put(@, job.id, <<>>)]
           s2 == IF Len(constructorMethods) > 0
                 THEN [s1 EXCEPT !.microtasks = Append(@, [job EXCEPT !.kind = "execStart"])]
                 ELSE s1
       IN Settle(s2, job.act)

\* handleTrackSelection after Promise.all, lines 618-629
ActCont(s, job) ==
  [s EXCEPT !.activeTrack = job.track, !.readySignals = Append(@, job.act)]

\* ----------------------------------------------------------- channel router
\* lines 651-676: one executeMethods per target, each started synchronously
\* the registry read under the module type instead of the placement id
RECURSIVE DispatchTargets_ByType(_, _, _, _, _)
DispatchTargets_ByType(s, track, channelNumber, targets, thr) ==
  IF targets = <<>> THEN s
  ELSE LET instanceId == Head(targets).instanceId
           methods == ChannelMethods(track, instanceId, channelNumber)
           s1 == IF instanceId \notin DOMAIN track.modulesData \/ methods = <<>>
                 THEN s
                 ELSE ExecuteMethods(s, Job("execStart", track.name, instanceId, channelNumber),
                                     Get(s.activeModules, Head(targets).moduleType, <<>>), thr)
       IN DispatchTargets_ByType(s1, track, channelNumber, Tail(targets), thr)

\* the loop over the channel's targets, lines 655-679
RECURSIVE DispatchTargets(_, _, _, _, _)
DispatchTargets(s, track, channelNumber, targets, thr) ==
  IF targets = <<>> THEN s
  ELSE LET instanceId == Head(targets).instanceId
           methods == ChannelMethods(track, instanceId, channelNumber)
           s1 == IF instanceId \notin DOMAIN track.modulesData \/ methods = <<>>
                 THEN s
                 ELSE ExecuteMethods(s, Job("execStart", track.name, instanceId, channelNumber),
                                     Get(s.activeModules, instanceId, <<>>), thr)
       IN DispatchTargets(s1, track, channelNumber, Tail(targets), thr)

\* the `|| []` of line 645 left out: reading length of undefined throws
HandleChannelMessage_NoDefault(s, channelNumber, thr) ==
  IF s.activeTrack = Null THEN s
  ELSE LET track == FindTrack(s, s.activeTrack)
           s1 == IF channelNumber \notin DOMAIN s.activeChannelHandlers
                 THEN [s EXCEPT !.activeChannelHandlers = BuildChannelHandlerMap(track)]
                 ELSE s
           channelTargets == Get(s1.activeChannelHandlers, channelNumber, <<>>)
           s2 == DispatchTargets(s1, track, channelNumber, channelTargets, thr)
       IN IF channelNumber \notin DOMAIN s1.activeChannelHandlers
          THEN [s1 EXCEPT !.rejections = @ + 1]
          ELSE [s2 EXCEPT !.rejections = IF @ > s.rejections THEN s.rejections + 1 ELSE @]

\* handleChannelMessage, lines 632-680
HandleChannelMessage(s, channelNumber, thr) ==
  IF s.activeTrack = Null THEN s
  ELSE LET track == FindTrack(s, s.activeTrack)
           s1 == IF channelNumber \notin DOMAIN s.activeChannelHandlers
                 THEN [s EXCEPT !.activeChannelHandlers = BuildChannelHandlerMap(track)]
                 ELSE s
           channelTargets == Get(s1.activeChannelHandlers, channelNumber, <<>>)
           s2 == DispatchTargets(s1, track, channelNumber, channelTargets, thr)
       IN \* Promise.all: the targets' rejections reach the caller as one
          [s2 EXCEPT !.rejections = IF @ > s.rejections THEN s.rejections + 1 ELSE @]

\* ------------------------------------------------------------------ preview
\* the registry key of a module's preview, line 1048
PreviewKey(moduleName) == "preview_" \o moduleName

\* clearPreview, lines 1088-1141
ClearPreview(s, thr) ==
  IF s.previewModuleName = Null THEN s
  ELSE LET moduleName == s.previewModuleName
           previewKey == PreviewKey(moduleName)
           instances == Get(s.activeModules, previewKey, <<>>)
           s1 == DestroyEach(s, instances, thr)
           s2 == ReleasePlacement(s1, moduleName, previewKey)
       IN [ s2 EXCEPT
              !.activeModules = [k \in DOMAIN @ \ {previewKey} |-> @[k]],
              !.grid = [k \in DOMAIN @ \ {previewKey} |-> @[k]],
              !.previewModuleName = Null ]

\* the catch of previewModule, lines 1076-1086: a rejection of the preview's
\* executeMethods reaches it a microtask later and is handled there
PreviewCatch(s, after, job) ==
  IF job.src = "preview" /\ after.rejections > s.rejections
  THEN [ after EXCEPT !.rejections = s.rejections,
                      !.microtasks = Append(@, [job EXCEPT !.kind = "previewCatch"]) ]
  ELSE after

\* previewModule up to its first await, lines 1029-1065
PreviewModule(s, moduleName, thr) ==
  LET previewKey == PreviewKey(moduleName)
      s1 == ClearPreview(s, thr)
      s2 == [ s1 EXCEPT !.previewModuleName = moduleName,
                        !.activeModules = Put(@, previewKey, <<>>) ]
      job == Job("execStart", Null, previewKey, "preview")
  IN IF Len(PreviewData(moduleName).constructor) > 0
     THEN PreviewCatch(s2, ExecuteMethods(s2, job, s2.activeModules[previewKey], thr), job)
     ELSE s2

\* --------------------------------------------------------------- scheduler
\* run the continuation at the head of the microtask queue
RunMicrotask(s, thr) ==
  LET job == Head(s.microtasks)
      s0 == [s EXCEPT !.microtasks = Tail(@)]
  IN CASE job.kind = "plResume" -> PlResume(s0, job)
       [] job.kind = "actCont" -> ActCont(s0, job)
       [] job.kind = "execStart" ->
            ExecuteMethods(s0, job, Get(s0.activeModules, job.id, <<>>), thr)
       [] job.kind = "matAfterLoad" -> MatAfterLoad(s0, job)
       [] job.kind = "matStore" -> PreviewCatch(s0, MatStore(s0, job, thr), job)
       [] job.kind = "execOther" -> PreviewCatch(s0, ExecOther(s0, job, thr), job)
       [] job.kind = "previewCatch" -> ClearPreview(s0, thr)

\* no JavaScript is running and no microtask is queued: a macrotask may start
Idle == microtasks = <<>> /\ rafRunning = <<>>

\* nothing is suspended: every operation has settled
Quiescent ==
  /\ Idle
  /\ rafCallbacks = <<>>
  /\ \A t \in DOMAIN loadWaiters : loadWaiters[t] = <<>>

Received(s, msg) == [s EXCEPT !.hist = Append(@, msg)]

\* ------------------------------------------------------------------ actions
\* IPC message track-activate, lines 205-213
IpcTrackActivate ==
  /\ Idle /\ Len(hist) < MaxMsgs
  /\ \E trackName \in TrackNames, thr \in SUBSET MayThrow(St) :
       Commit(Received(HandleTrackSelection(St, trackName, thr),
                       [type |-> "track-activate", arg |-> trackName]))

\* IPC message set-activate, lines 192-203
IpcSetActivate ==
  /\ Idle /\ Len(hist) < MaxMsgs
  /\ \E thr \in SUBSET MayThrow(St) :
       Commit(Received(DeactivateActiveTrack(St, thr),
                       [type |-> "set-activate", arg |-> Null]))

\* IPC message channel-trigger, lines 215-232
IpcChannelTrigger ==
  /\ Idle /\ Len(hist) < MaxMsgs
  /\ \E channelNumber \in Channels, thr \in SUBSET MayThrow(St) :
       Commit(Received(HandleChannelMessage(St, channelNumber, thr),
                       [type |-> "channel-trigger", arg |-> channelNumber]))

\* IPC message preview-module, lines 160-168
IpcPreviewModule ==
  /\ Idle /\ Len(hist) < MaxMsgs
  /\ \E moduleName \in ModuleFiles, thr \in SUBSET MayThrow(St) :
       Commit(Received(PreviewModule(St, moduleName, thr),
                       [type |-> "preview-module", arg |-> moduleName]))

\* IPC message clear-preview, lines 170-172
IpcClearPreview ==
  /\ Idle /\ Len(hist) < MaxMsgs
  /\ \E thr \in SUBSET MayThrow(St) :
       Commit(Received(ClearPreview(St, thr), [type |-> "clear-preview", arg |-> Null]))

\* the import of a module file succeeds: lines 72-73
LoadResolve ==
  /\ Idle
  /\ \E t \in DOMAIN moduleClassCache \cap ModuleFiles :
       /\ moduleClassCache[t] = "pending"
       /\ Commit([St EXCEPT
            !.moduleClassCache[t] = "loaded",
            !.microtasks = [i \in 1..Len(loadWaiters[t]) |-> [loadWaiters[t][i] EXCEPT !.ok = TRUE]],
            !.loadWaiters[t] = <<>>])

\* the catch of line 74 without the delete: the rejected loader stays cached
LoadReject_Poisoned ==
  /\ Idle
  /\ \E t \in DOMAIN moduleClassCache :
       /\ moduleClassCache[t] = "pending"
       /\ Commit([St EXCEPT
            !.moduleClassCache[t] = "failed",
            !.loads.failed = Put(@, t, Get(@, t, 0) + 1),
            !.microtasks = [i \in 1..Len(loadWaiters[t]) |-> [loadWaiters[t][i] EXCEPT !.ok = FALSE]],
            !.loadWaiters[t] = <<>>])

\* the import fails: the cache entry is dropped and the waiters see the error
LoadReject ==
  /\ Idle
  /\ \E t \in DOMAIN moduleClassCache :
       /\ moduleClassCache[t] = "pending"
       /\ Commit([St EXCEPT
            !.moduleClassCache = [x \in DOMAIN @ \ {t} |-> @[x]],
            !.loads.failed = Put(@, t, Get(@, t, 0) + 1),
            !.microtasks = [i \in 1..Len(loadWaiters[t]) |-> [loadWaiters[t][i] EXCEPT !.ok = FALSE]],
            !.loadWaiters[t] = <<>>])

\* the browser starts a frame: the callbacks registered so far will run
RafFrame ==
  /\ Idle /\ rafCallbacks # <<>>
  /\ Commit([St EXCEPT !.rafRunning = rafCallbacks, !.rafCallbacks = <<>>])

\* the next callback of the running frame
RafStep ==
  /\ microtasks = <<>> /\ rafRunning # <<>>
  /\ Commit(RafCallback([St EXCEPT !.rafRunning = Tail(@)], Head(rafRunning)))

\* the microtask checkpoint: one queued continuation runs
MicroStep ==
  /\ microtasks # <<>>
  /\ \E thr \in SUBSET MayThrow(St) : Commit(RunMicrotask(St, thr))

\* the projector as constructed, with what Math.random() is going to return
InitRandom(tracks, stream) ==
  /\ userData = tracks
  /\ random = stream
  /\ drawn = 0
  /\ previewModuleName = Null
  /\ activeTrack = Null
  /\ activeModules = EmptyMap
  /\ activeChannelHandlers = EmptyMap
  /\ moduleClassCache = EmptyMap
  /\ isDeactivating = FALSE
  /\ pool = EmptyMap
  /\ dom = <<>>
  /\ surfaces = <<>>
  /\ insts = <<>>
  /\ loadWaiters = EmptyMap
  /\ microtasks = <<>>
  /\ rafCallbacks = <<>>
  /\ rafRunning = <<>>
  /\ acts = <<>>
  /\ readySignals = <<>>
  /\ hist = <<>>
  /\ trackPool = EmptyMap
  /\ fresh = {}
  /\ lastDeact = [n |-> 0, track |-> Null, before |-> EmptyMap, fresh |-> {},
                  after |-> EmptyMap, destroyed |-> {}]
  /\ rejections = 0
  /\ grid = EmptyMap
  /\ loads = [started |-> EmptyMap, failed |-> EmptyMap]
  /\ debugOverlayActive = FALSE
  /\ debugLogQueue = <<>>
  /\ debugLogTimeout = FALSE
  /\ debugTimers = 0
  /\ debugSent = <<>>
  /\ debugLines = <<>>
  /\ moduleElem = 1
  /\ style = [visibility |-> "hidden", filter |-> Null]
  /\ timeouts = <<>>
  /\ destroyed = FALSE
  /\ methodCalls = 0

InitProjector(tracks) == InitRandom(tracks, << 0 >>)

\* the projector as constructed; no option is being resolved
InitState(tracks) ==
  /\ InitProjector(tracks)
  /\ optIn = <<>>
  /\ optOut = <<>>

InitWith(m) == InitState(<< TrackA(m), TrackB >>)

Init == InitWith(IntroMatrix)

Next ==
  \/ IpcTrackActivate
  \/ IpcSetActivate
  \/ IpcChannelTrigger
  \/ LoadResolve
  \/ LoadReject
  \/ RafFrame
  \/ RafStep
  \/ MicroStep

Spec == Init /\ [][Next]_vars

\* --------------------------------------------------------- previews alone
\* the dashboard previews modules with no set loaded
NextPreview ==
  \/ IpcPreviewModule
  \/ IpcClearPreview
  \/ LoadResolve
  \/ LoadReject
  \/ RafFrame
  \/ RafStep
  \/ MicroStep

SpecPreview == InitState(<<>>) /\ [][NextPreview]_vars

\* ---------------------------------------------- one operation at a time
\* the matrix values the catalog on disk may carry for placement a1
ExclKeys == { CellKey(1, 1), CellKey(1, 2), CellKey(2, 1), CellKey(MaxDim + 1, 1) }

ExclLists == UNION { [1..n -> ExclKeys] : n \in 0..MaxExcl }

MatrixInputs ==
  { MatrixObj(r, c, ex) : r \in 0..MaxDim, c \in 0..MaxDim, ex \in ExclLists }
    \cup { MatrixArr(r, c) : r \in 0..MaxDim, c \in 0..MaxDim }

InitSeq == \E m \in MatrixInputs : InitWith(m)

\* the dashboard sends the next message only when the last one has settled
SeqTrackActivate == Quiescent /\ IpcTrackActivate

SeqSetActivate == Quiescent /\ IpcSetActivate

SeqChannelTrigger == Quiescent /\ IpcChannelTrigger

NextSeq ==
  \/ SeqTrackActivate
  \/ SeqSetActivate
  \/ SeqChannelTrigger
  \/ LoadResolve
  \/ LoadReject
  \/ RafFrame
  \/ RafStep
  \/ MicroStep

SpecSeq == InitSeq /\ [][NextSeq]_vars

\* ------------------------------------------- placements without a matrix
\* a set whose track "A" has placement p1 with a constructor list that has no
\* matrix call, p2 with no constructor call at all, and p3 with a 1 x 1 matrix
TrackP ==
  [ name |-> "A",
    modules |-> << [id |-> "p1", type |-> "T1"], [id |-> "p2", type |-> "T1"],
                   [id |-> "p3", type |-> "T1"] >>,
    modulesData |->
      [ i \in {"p1", "p2", "p3"} |->
          IF i = "p1"
          THEN [ constructor |->
                   << MethodCall("setColor", << [name |-> "color", value |-> "#ff0000"] >>) >>,
                 methods |-> [c \in {"3"} |-> << MethodCall("methodA", <<>>) >>] ]
          ELSE IF i = "p2"
               THEN [ constructor |-> <<>>,
                      methods |-> [c \in {"4"} |-> << MethodCall("methodA", <<>>) >>] ]
               ELSE [ constructor |->
                        << MatrixCall(MatrixArr(1, 1)),
                           MethodCall("setColor", << [name |-> "color", value |-> "#0000ff"] >>) >>,
                      methods |-> [c \in {"3"} |-> << MethodCall("methodB", <<>>) >>] ] ] ]

SpecPlain == InitState(<< TrackP >>) /\ [][NextSeq]_vars

\* the event loop keeps running: queued microtasks, frames and imports are
\* eventually served
Fairness ==
  /\ WF_vars(MicroStep)
  /\ WF_vars(RafFrame)
  /\ WF_vars(RafStep)
  /\ WF_vars(LoadResolve)
  /\ WF_vars(LoadReject)

LiveTrackActivate == Len(hist) < MaxLiveMsgs /\ SeqTrackActivate

LiveSetActivate == Len(hist) < MaxLiveMsgs /\ SeqSetActivate

LiveChannelTrigger == Len(hist) < MaxLiveMsgs /\ SeqChannelTrigger

NextLive ==
  \/ LiveTrackActivate
  \/ LiveSetActivate
  \/ LiveChannelTrigger
  \/ LoadResolve
  \/ LoadReject
  \/ RafFrame
  \/ RafStep
  \/ MicroStep

LiveSpecSeq == Init /\ [][NextLive]_vars /\ Fairness

\* ------------------------------------------- batches that re-materialise
\* track "B" of another set: placement r1 (T2) is a grid of two cells that
\* channel "3" re-materialises before calling setColor; placement r2 (T1) is
\* a grid of two cells on which channel "4" calls methodC, which no class
\* implements, and setColor with a random size
TrackR ==
  [ name |-> "B",
    modules |-> << [id |-> "r1", type |-> "T2"], [id |-> "r2", type |-> "T1"] >>,
    modulesData |->
      [ i \in {"r1", "r2"} |->
          IF i = "r1"
          THEN [ constructor |->
                   << MatrixCall(MatrixArr(1, 2)),
                      MethodCall("setColor", << [name |-> "color", value |-> "#0000ff"] >>) >>,
                 methods |->
                   [ c \in {"3"} |->
                       << MatrixCall(MatrixArr(2, 1)),
                          MethodCall("setColor", << [name |-> "color", value |-> "#ffffff"] >>) >> ] ]
          ELSE [ constructor |-> << MatrixCall(MatrixArr(1, 2)) >>,
                 methods |->
                   [ c \in {"4"} |->
                       << MethodCall("methodC", <<>>),
                          MethodCall("setColor",
                            << [ name |-> "size", value |-> Half(1),
                                 randomRange |-> [kind |-> "arr", items |-> << Half(0), Half(2) >>] ] >>) >> ] ] ] ]

\* Math.random() returns its lowest and its highest value in some order
RandomStreams == UNION { [1..n -> {0, RandDen - 1}] : n \in 1..MaxDraws }

InitBatch ==
  /\ \E stream \in RandomStreams : InitRandom(<< TrackR >>, stream)
  /\ optIn = <<>>
  /\ optOut = <<>>

SpecBatch == InitBatch /\ [][Next]_vars

\* ------------------------------------------------ option resolution alone
\* a callback handed to buildMethodOptions is absent, returns or throws; it
\* is called inside try/catch (lines 41-45, 51-55), so nothing escapes
CallbackEscapes(cb) == FALSE

\* the no-repeat cache: on when a cache and a key prefix were supplied
\* (lines 12-17), with the values stored under the two keys of the option
Cache(on, rv, rrInt) == [on |-> on, rv |-> rv, rrInt |-> rrInt]

NoCache == Cache(FALSE, Undefined, Undefined)

Resolved(set, value, threw, cache) ==
  [set |-> set, value |-> value, threw |-> threw, cache |-> cache]

\* lines 23-34: a value of the randomValues list, not the last one picked
PickRandomValue(rv, k, cache) ==
  LET last == IF cache.on THEN cache.rv ELSE Undefined
      candidates == IF last # Undefined /\ Len(rv) > 1
                    THEN SelectSeq(rv, LAMBDA v : v # last) ELSE rv
      n == IF Len(candidates) > 1 THEN Len(candidates) ELSE 1
      picked == IF FloorRandom(k, n) + 1 <= Len(candidates)
                THEN candidates[FloorRandom(k, n) + 1] ELSE Undefined
  IN Resolved(TRUE, picked, FALSE, IF cache.on THEN [cache EXCEPT !.rv = picked] ELSE cache)

\* the pick kept as drawn, whatever the cache holds
PickInteger_Repeat(min, max, k, cache) ==
  LET first == RandomInteger(k, min, max)
  IN Resolved(TRUE, first, FALSE, IF cache.on THEN [cache EXCEPT !.rrInt = first] ELSE cache)

\* lines 59-68: an integer of the range, moved on when it repeats the last
PickInteger(min, max, k, cache) ==
  LET last == IF cache.on THEN cache.rrInt ELSE Undefined
      range == (max.v - min.v) \div Unit + 1
      first == RandomInteger(k, min, max)
      picked == IF cache.on /\ range > 1 /\ IsNumber(last) /\ first = last
                THEN (IF first.v < max.v THEN Num(first.v + Unit) ELSE min)
                ELSE first
  IN Resolved(TRUE, picked, FALSE, IF cache.on THEN [cache EXCEPT !.rrInt = picked] ELSE cache)

\* the test of line 40 looking at min only
BuildMethodOptionsEntry_MinOnly(entry, k, cache, cb) ==
  IF entry.name = Null THEN Resolved(FALSE, Undefined, FALSE, cache)
  ELSE IF entry.randomValues.kind = "arr" /\ Len(entry.randomValues.items) > 0
  THEN PickRandomValue(entry.randomValues.items, k, cache)
  ELSE IF IsPair(entry.randomRange)
  THEN LET min0 == entry.randomRange.items[1]
           max0 == entry.randomRange.items[2]
           swap == min0.v > max0.v
           min == IF swap THEN max0 ELSE min0
           max == IF swap THEN min0 ELSE max0
       IN IF ~IsNumber(min0)
          THEN Resolved(TRUE, entry.value, CallbackEscapes(cb), cache)
          ELSE IF min.v % Unit = 0 /\ max.v % Unit = 0
               THEN [PickInteger(Num(min.v), Num(max.v), k, cache) EXCEPT !.threw = swap /\ CallbackEscapes(cb)]
               ELSE Resolved(TRUE, RandomFloat(k, min, max), swap /\ CallbackEscapes(cb), cache)
  ELSE Resolved(TRUE, entry.value, FALSE, cache)

\* buildMethodOptions, lines 19-76: what the loop does with one entry when
\* Math.random() returns k/RandDen
BuildMethodOptionsEntry(entry, k, cache, cb) ==
  IF entry.name = Null THEN Resolved(FALSE, Undefined, FALSE, cache)
  ELSE IF entry.randomValues.kind = "arr" /\ Len(entry.randomValues.items) > 0
  THEN PickRandomValue(entry.randomValues.items, k, cache)
  ELSE IF IsPair(entry.randomRange)
  THEN LET min0 == entry.randomRange.items[1]
           max0 == entry.randomRange.items[2]
           swap == min0.v > max0.v
           min == IF swap THEN max0 ELSE min0
           max == IF swap THEN min0 ELSE max0
       IN IF ~IsNumber(min0) \/ ~IsNumber(max0)
          THEN Resolved(TRUE, entry.value, CallbackEscapes(cb), cache)
          ELSE IF IsInteger(min) /\ IsInteger(max)
               THEN [PickInteger(min, max, k, cache) EXCEPT !.threw = swap /\ CallbackEscapes(cb)]
               ELSE Resolved(TRUE, RandomFloat(k, min, max), swap /\ CallbackEscapes(cb), cache)
  ELSE Resolved(TRUE, entry.value, FALSE, cache)

\* the values a bound of a randomRange may be
BoundValues == { Half(h) : h \in (-2 * MaxBound)..(2 * MaxBound) } \cup { Str, Undefined }

RangeInputs ==
  { [kind |-> "absent", items |-> <<>>], [kind |-> "other", items |-> <<>>] }
    \cup { [kind |-> "arr", items |-> q] :
             q \in [1..2 -> BoundValues]
                     \cup { <<>>, << Half(0) >>, << Half(0), Half(1), Half(2) >> } }

RandomValuesInputs ==
  { [kind |-> "absent", items |-> <<>>] }
    \cup { [kind |-> "arr", items |-> q] :
             q \in { <<>>, << Half(2) >>, << Half(2), Str >>, << Str, Str >> } }

CacheInputs ==
  { NoCache }
    \cup { Cache(TRUE, rv, rrInt) :
             rv \in { Undefined, Half(2), Str },
             rrInt \in { Half(2 * h) : h \in (-MaxBound)..MaxBound } \cup { Undefined, Str } }

OptionInputs ==
  { [ entry |-> [name |-> n, value |-> v, randomRange |-> rr, randomValues |-> rv],
      cache |-> c, cb |-> cb ] :
      n \in {"color", Null}, v \in { Half(1), Str }, rr \in RangeInputs,
      rv \in RandomValuesInputs, c \in CacheInputs, cb \in {"none", "returns", "throws"} }

InitOptions ==
  /\ InitProjector(<<>>)
  /\ optIn \in { << i >> : i \in OptionInputs }
  /\ optOut = <<>>

\* the entry is resolved by the projector and by buildMethodOptions, once for
\* every value the random source can return
ResolveEntry ==
  /\ optIn # <<>> /\ optOut = <<>>
  /\ optOut' =
       << [ projector |-> [ k \in 0..(RandDen - 1) |-> ResolveOption(optIn[1].entry, k) ],
            shared |-> [ k \in 0..(RandDen - 1) |->
                           BuildMethodOptionsEntry(optIn[1].entry, k, optIn[1].cache, optIn[1].cb) ] ] >>
  /\ UNCHANGED << projectorVars, hist, optIn, debugVars, moduleVars >>

\* the same entry resolved a second time by buildMethodOptions, with the
\* cache as the first resolution left it, for every pair of values of the
\* random source
ResolveAgain ==
  /\ Len(optOut) = 1
  /\ optOut' =
       Append(optOut,
         [ shared |-> [ k \in 0..(RandDen - 1) |->
                          [ n \in 0..(RandDen - 1) |->
                              BuildMethodOptionsEntry(optIn[1].entry, n,
                                                      optOut[1].shared[k].cache, optIn[1].cb) ] ] ])
  /\ UNCHANGED << projectorVars, hist, optIn, debugVars, moduleVars >>

NextOptions ==
  \/ ResolveEntry
  \/ ResolveAgain

SpecOptions == InitOptions /\ [][NextOptions]_vars

\* ------------------------------------------------------ matrix resolution
\* Number("x"), Number(undefined)
NaN == [t |-> "nan", v |-> 0]

\* the whole number n
Whole(n) == Num(n * Unit)

\* x || 1: undefined, 0 and NaN are falsy, a non-empty string is not
OrDefault(x) == IF x = Undefined \/ x = NaN \/ x = Whole(0) THEN Whole(1) ELSE x

\* Number(x)
ToNumber(x) == IF IsNumber(x) THEN x ELSE NaN

\* Math.max(1, Math.min(5, x)) for a number x
Clamp(x) == IF x.v < Unit THEN Whole(1) ELSE IF x.v > 5 * Unit THEN Whole(5) ELSE x

\* how often `for (let i = 1; i <= x; i++)` runs its body
LoopCount(x) == IF IsNumber(x) /\ x.v >= Unit THEN x.v \div Unit ELSE 0

\* the value of the option named "matrix": an array, an object, or neither
RawMatrix(kind, rows, cols) == [kind |-> kind, rows |-> rows, cols |-> cols]

\* updateMatrix, lines 826-845: rows and cols as the two loops will read them
UpdateMatrixOptions(m) ==
  IF m.kind \in {"arr", "obj"}
  THEN [rows |-> OrDefault(m.rows), cols |-> OrDefault(m.cols)]
  ELSE [rows |-> Whole(1), cols |-> Whole(1)]

\* parseMatrixOptions, methodOptions.js lines 81-105
ParseMatrixOptions(m) ==
  LET rows == IF m.kind \in {"arr", "obj"} THEN OrDefault(m.rows) ELSE Whole(1)
      cols == IF m.kind \in {"arr", "obj"} THEN OrDefault(m.cols) ELSE Whole(1)
  IN [rows |-> Clamp(OrDefault(ToNumber(rows))), cols |-> Clamp(OrDefault(ToNumber(cols)))]

\* what rows / cols may be: whole numbers from -1 to MaxGrid, 2.5, "x", missing
DimValues == { Whole(n) : n \in (-1)..MaxGrid } \cup { Half(5), Str, Undefined }

MatrixValues ==
  { RawMatrix(kind, rows, cols) : kind \in {"arr", "obj"}, rows \in DimValues, cols \in DimValues }
    \cup { RawMatrix("none", Undefined, Undefined) }

InitMatrix ==
  /\ InitProjector(<<>>)
  /\ optIn \in { << m >> : m \in MatrixValues }
  /\ optOut = <<>>

\* the matrix option is resolved by updateMatrix, whose loops then lay out
\* `cells` cells, and by parseMatrixOptions
ResolveMatrix ==
  /\ optIn # <<>> /\ optOut = <<>>
  /\ optOut' =
       << [ projector |-> UpdateMatrixOptions(optIn[1]),
            shared |-> ParseMatrixOptions(optIn[1]),
            cells |-> Len(Cells(LoopCount(UpdateMatrixOptions(optIn[1]).rows),
                                LoopCount(UpdateMatrixOptions(optIn[1]).cols), <<>>)) ] >>
  /\ UNCHANGED << projectorVars, hist, optIn, debugVars, moduleVars >>

NextMatrix == ResolveMatrix

SpecMatrix == InitMatrix /\ [][NextMatrix]_vars

\* ---------------------------------------------------------------- debug log
\* the close branch without line 247: the lines queued so far are kept
DebugOverlayVisibility_KeepQueue(isOpen) ==
  /\ debugOverlayActive' = isOpen
  /\ debugLogTimeout' = (isOpen /\ debugLogTimeout)
  /\ debugTimers' = IF ~isOpen /\ debugLogTimeout THEN debugTimers - 1 ELSE debugTimers
  /\ UNCHANGED debugLogQueue

\* the debug-overlay-visibility branch of the IPC listener, lines 234-250
DebugOverlayVisibility(isOpen) ==
  /\ debugOverlayActive' = isOpen
  /\ debugLogTimeout' = (isOpen /\ debugLogTimeout)
  /\ debugTimers' = IF ~isOpen /\ debugLogTimeout THEN debugTimers - 1 ELSE debugTimers
  /\ debugLogQueue' = IF isOpen THEN debugLogQueue ELSE <<>>

\* IPC message debug-overlay-visibility
IpcDebugOverlayVisibility ==
  /\ Len(hist) < MaxMsgs
  /\ \E isOpen \in BOOLEAN :
       /\ DebugOverlayVisibility(isOpen)
       /\ hist' = Append(hist, [type |-> "debug-overlay-visibility",
                                arg |-> IF isOpen THEN "open" ELSE "closed"])
  /\ UNCHANGED << projectorVars, moduleVars, optIn, optOut, debugSent, debugLines >>

\* a timer set for every line
StartsTimer_Always == TRUE

\* line 97: a timer is set only when the field holds none
StartsTimer == ~debugLogTimeout

\* queueDebugLog, lines 93-110, called by executeMethods (line 784) with the
\* next line: the line is queued and a flush timer started if none is pending
QueueDebugLog ==
  /\ Len(debugLines) < MaxLines
  /\ debugLines' = Append(debugLines, [open |-> debugOverlayActive])
  /\ IF debugOverlayActive
     THEN /\ debugLogQueue' = Append(debugLogQueue, Len(debugLines) + 1)
          /\ debugLogTimeout' = TRUE
          /\ debugTimers' = IF StartsTimer THEN debugTimers + 1 ELSE debugTimers
     ELSE UNCHANGED << debugLogQueue, debugLogTimeout, debugTimers >>
  /\ UNCHANGED << projectorVars, moduleVars, hist, optIn, optOut, debugOverlayActive, debugSent >>

\* the timer callback, lines 98-108: the queued lines leave as one message
DebugLogFlush ==
  /\ debugTimers > 0
  /\ debugTimers' = debugTimers - 1
  /\ debugLogTimeout' = FALSE
  /\ IF Len(debugLogQueue) > 0 /\ debugOverlayActive
     THEN /\ debugSent' = Append(debugSent, debugLogQueue)
          /\ debugLogQueue' = <<>>
     ELSE UNCHANGED << debugSent, debugLogQueue >>
  /\ UNCHANGED << projectorVars, moduleVars, hist, optIn, optOut, debugOverlayActive, debugLines >>

NextDebug ==
  \/ IpcDebugOverlayVisibility
  \/ QueueDebugLog
  \/ DebugLogFlush

SpecDebug == InitState(<<>>) /\ [][NextDebug]_vars

\* ------------------------------------------------------- the pool alone
\* getElement and releaseElement called in any order; hist keeps the calls
PoolFrame ==
  UNCHANGED << userData, activeTrack, activeModules, activeChannelHandlers,
               moduleClassCache, isDeactivating, dom, insts, loadWaiters,
               microtasks, rafCallbacks, rafRunning, acts, readySignals,
               trackPool, lastDeact, rejections, grid, loads, random, drawn,
               previewModuleName,
               optIn, optOut, debugVars, moduleVars >>

\* the surfaces some caller holds: handed out and not given back
Held == { e \in 1..Len(surfaces) : \A t \in DOMAIN pool : e \notin SeqToSet(pool[t]) }

PoolGetElement ==
  /\ Len(hist) < MaxPoolOps
  /\ \E moduleName \in ModuleFiles :
       LET s == GetElement(St, moduleName)
       IN /\ pool' = s.pool
          /\ surfaces' = s.surfaces
          /\ fresh' = s.fresh
          /\ hist' = Append(hist, [type |-> "getElement", arg |-> moduleName,
                                   ret |-> GotElement(St, moduleName)])
  /\ PoolFrame

PoolReleaseElement ==
  /\ Len(hist) < MaxPoolOps
  /\ \E e \in Held :
       LET s == ReleaseElement(St, e)
       IN /\ pool' = s.pool
          /\ hist' = Append(hist, [type |-> "releaseElement", arg |-> e, ret |-> Null])
  /\ UNCHANGED << surfaces, fresh >>
  /\ PoolFrame

NextPool ==
  \/ PoolGetElement
  \/ PoolReleaseElement

SpecPool == InitState(<<>>) /\ [][NextPool]_vars

\* ------------------------------------------------- a module instance alone
\* ModuleBase of unnamed/part_000: the instance was constructed on surface 1
\* (lines 156-160 hide it); `style` is the style of that surface, whoever
\* holds it now
Durations == {0, 1}

\* what is left to do outside this instance
ModuleFrame == UNCHANGED << projectorVars, debugVars, hist, optIn, optOut >>

\* a method that sets one style property and, for a duration > 0, starts a
\* timer that sets it back: show (163-192), hide (194-223), invert (629-644)
SetFor(prop, now, later, duration) ==
  /\ methodCalls < MaxCalls
  /\ methodCalls' = methodCalls + 1
  /\ IF moduleElem # NoSurface
     THEN /\ style' = [style EXCEPT ![prop] = now]
          /\ timeouts' = IF duration > 0
                         THEN Append(timeouts, [prop |-> prop, value |-> later])
                         ELSE timeouts
     ELSE UNCHANGED << style, timeouts >>
  /\ UNCHANGED << moduleElem, destroyed >>
  /\ ModuleFrame

ModuleShow == \E duration \in Durations : SetFor("visibility", "visible", "hidden", duration)

ModuleHide == \E duration \in Durations : SetFor("visibility", "hidden", "visible", duration)

ModuleInvert == \E duration \in Durations : SetFor("filter", "invert(1)", "none", duration)

\* destroy, lines 646-663: the surface is detached and this.elem cleared; the
\* timers of show, hide and invert are not
ModuleDestroy ==
  /\ ~destroyed
  /\ destroyed' = TRUE
  /\ moduleElem' = NoSurface
  /\ UNCHANGED << style, timeouts, methodCalls >>
  /\ ModuleFrame

\* one of the pending timers fires: its callback writes to the surface it
\* captured when the method ran (lines 177-186, 208-217, 638-640)
ModuleTimeout ==
  /\ \E n \in 1..Len(timeouts) :
       /\ style' = [style EXCEPT ![timeouts[n].prop] = timeouts[n].value]
       /\ timeouts' = SubSeq(timeouts, 1, n - 1) \o SubSeq(timeouts, n + 1, Len(timeouts))
  /\ UNCHANGED << moduleElem, destroyed, methodCalls >>
  /\ ModuleFrame

NextModule ==
  \/ ModuleShow
  \/ ModuleHide
  \/ ModuleInvert
  \/ ModuleDestroy
  \/ ModuleTimeout

SpecModule == InitState(<<>>) /\ [][NextModule]_vars

\* --------------------------------------------- the channel router alone
MethodLists ==
  { <<>>, << MethodCall("methodA", <<>>) >>,
    << MethodCall("methodA", <<>>), MethodCall("methodB", <<>>) >> }

\* the `methods` object of a placement: some channels, each with a list
ChannelMaps == UNION { [cs -> MethodLists] : cs \in SUBSET Channels }

PlacementPool ==
  { [id |-> "p" \o Digit[k + 1], type |-> IF k % 2 = 1 THEN "T1" ELSE "T2"] :
      k \in 1..MaxPlacements }

\* lists of distinct placements
PlacementLists ==
  { q \in UNION { [1..n -> PlacementPool] : n \in 0..MaxPlacements } :
      \A i, j \in 1..Len(q) : i # j => q[i].id # q[j].id }

\* tracks whose modulesData covers some of the placements
RouterTracks ==
  { [ name |-> "R", modules |-> q,
      modulesData |-> [i \in DOMAIN md |-> [constructor |-> <<>>, methods |-> md[i]]] ] :
      q \in PlacementLists,
      md \in UNION { [ids -> ChannelMaps] : ids \in SUBSET { p.id : p \in PlacementPool } } }

InitRouter == \E track \in { t \in RouterTracks : DOMAIN t.modulesData \subseteq { t.modules[i].id : i \in 1..Len(t.modules) } } :
  InitState(<< track >>)

\* line 572: the handler map of the track is derived and cached
RouterBuild ==
  /\ hist = <<>>
  /\ Commit(Received([St EXCEPT !.activeChannelHandlers = BuildChannelHandlerMap(userData[1])],
                     [type |-> "build", arg |-> userData[1].name]))

NextRouter == RouterBuild

SpecRouter == InitRouter /\ [][NextRouter]_vars

\* ================================================================== claims
\* an instance is live from its construction until destroy() is called on it
Live(i) == insts[i].destroyCalls = 0

\* the live instances whose elem is the surface e
BoundTo(e) == { i \in 1..Len(insts) : Live(i) /\ insts[i].elem = e }

\* the places of the pool that hold the surface e
PoolSlots(e) ==
  { tk \in UNION { {t} \X (1..Len(pool[t])) : t \in DOMAIN pool } : pool[tk[1]][tk[2]] = e }

\* the instances the registry holds
Registered == UNION { SeqToSet(activeModules[k]) : k \in DOMAIN activeModules }

AllLoaded == \A t \in ModuleFiles : t \in DOMAIN moduleClassCache /\ moduleClassCache[t] = "loaded"

\* C1: in every reachable state no surface is in the pool twice, none is
\* bound to two live instances, and none is in the pool while a live instance
\* is bound to it.
C1_SurfaceExclusive ==
  \A e \in 1..Len(surfaces) :
    /\ Cardinality(PoolSlots(e)) <= 1
    /\ Cardinality(BoundTo(e)) <= 1
    /\ ~(PoolSlots(e) # {} /\ BoundTo(e) # {})

\* C2: after track-activate(A) and then track-activate(B), B issued while A's
\* activation was unresolved, once everything has settled (all module loads
\* having succeeded) the active track is B and the registry holds no instance
\* created for a placement of A.
C2_LastActivationWins ==
  ( /\ Len(hist) = 2 /\ Len(acts) = 2 /\ 1 \in acts[2].overlapped
    /\ Quiescent /\ AllLoaded )
  => /\ activeTrack = acts[2].track
     /\ \A i \in Registered : insts[i].track # acts[1].track

\* C3: after a deactivation, each type's bucket holds exactly the surfaces it
\* held when the track was activated plus the surfaces cloned during the
\* track's lifetime, each once.
C3_PoolRestored ==
  lastDeact.n > 0 =>
    \A t \in ModuleFiles :
      LET after == Get(lastDeact.after, t, <<>>)
      IN /\ SeqToSet(after) =
              SeqToSet(Get(lastDeact.before, t, <<>>))
                \cup { e \in lastDeact.fresh : surfaces[e].cls = t }
         /\ Cardinality(SeqToSet(after)) = Len(after)

\* the keys of E that name a cell of the r-by-c grid
ValidExcluded(r, c, E) ==
  { k \in SeqToSet(E) : \E row \in 1..r, col \in 1..c : k = CellKey(row, col) }

\* the matrix call the catalog declares for a placement of a track
DeclaredMatrix(trackName, instanceId) ==
  LET calls == SelectSeq(ConstructorMethods(FindTrack(St, trackName), instanceId), IsMatrix)
  IN calls[Len(calls)].options[1].value

\* C4: a materialised placement (operations not interleaved) holds exactly
\* r*c - |E /\ grid| instances, r, c, E being the rows (0 read as 1), cols and
\* excluded cells its matrix call declares; a placement that is not
\* materialised (before materialisation, after teardown) holds none.
C4_GridCount ==
  \A id \in DOMAIN activeModules :
    IF id \in DOMAIN grid
    THEN LET m == DeclaredMatrix(grid[id].track, id)
             r == IF m.rows = 0 THEN 1 ELSE m.rows
             c == IF m.cols = 0 THEN 1 ELSE m.cols
             E == IF m.kind = "obj" THEN m.excludedCells ELSE <<>>
         IN Len(activeModules[id]) = r * c - Cardinality(ValidExcluded(r, c, E))
    ELSE activeModules[id] = <<>>

\* rows 2, cols 2 and two excluded keys of which one names a cell: 3 instances
C4_Witness ==
  /\ "a1" \in DOMAIN grid /\ "a1" \in DOMAIN activeModules
  /\ LET m == DeclaredMatrix("A", "a1")
     IN /\ m.kind = "obj" /\ m.rows = 2 /\ m.cols = 2
        /\ Len(m.excludedCells) = 2
        /\ Cardinality(ValidExcluded(2, 2, m.excludedCells)) = 1
  /\ Len(activeModules["a1"]) = 3

\* the placements of a track
PlacementIds(trackName) ==
  { FindTrack(St, trackName).modules[i].id : i \in 1..Len(FindTrack(St, trackName).modules) }

\* the activation whose ready signal this step sends
ReadySent(act) == readySignals' = Append(readySignals, act)

\* the suspended continuations, wherever they wait
Suspended(lw, mq) ==
  SeqToSet(mq) \cup UNION { SeqToSet(lw[t]) : t \in DOMAIN lw }

\* C5 as claimed: when an activation sends its ready signal, every placement of
\* the track whose module loaded has its grid of live instances registered.
C5_ReadyAfterGrid ==
  [][ \A act \in 1..Len(acts) :
        ReadySent(act) =>
          \A id \in PlacementIds(acts[act].track) \cap DOMAIN activeModules' :
            id \in DOMAIN grid' ]_vars

\* C5 amended: when an activation sends its ready signal, the init promise of
\* every placement of the track has settled (its module load succeeded or
\* failed and its callback has run); the grid and the constructor batch are
\* not waited for.
C5_ReadyAfterLoads ==
  [][ \A act \in 1..Len(acts) :
        ReadySent(act) =>
          ~\E j \in Suspended(loadWaiters', microtasks') :
               j.kind = "plResume" /\ j.act = act ]_vars

\* a ready signal is out while placement a1, loaded, has no instance yet
C5_Witness ==
  /\ readySignals = << 1 >> /\ acts[1].track = "A"
  /\ "a1" \in DOMAIN activeModules /\ activeModules["a1"] = <<>>
  /\ "a1" \notin DOMAIN grid
  /\ \E j \in SeqToSet(microtasks) : j.kind = "matAfterLoad" /\ j.id = "a1"

\* the live instances constructed for a placement
LiveOf(id) == { i \in 1..Len(insts) : Live(i) /\ insts[i].placement = id }

\* the last message received was track-activate(trackName), now the active track
Activated(trackName) ==
  /\ hist # <<>>
  /\ hist[Len(hist)] = [type |-> "track-activate", arg |-> trackName]
  /\ activeTrack = trackName

\* instance i has been called with the method and the declared option values
GotCall(i, method, src) ==
  \E n \in 1..Len(insts[i].calls) :
    /\ insts[i].calls[n].name = method.name
    /\ insts[i].calls[n].src = src
    /\ Len(insts[i].calls[n].options) = Len(method.options)
    /\ \A o \in 1..Len(method.options) :
         insts[i].calls[n].options[o] = << method.options[o].name, method.options[o].value >>

\* every placement whose module loaded has its declared number of live
\* instances, and each has received every non-matrix constructor call
CtorDelivered(trackName) ==
  \A p \in 1..Len(FindTrack(St, trackName).modules) :
    LET id == FindTrack(St, trackName).modules[p].id
        ctor == ConstructorMethods(FindTrack(St, trackName), id)
        m == DeclaredMatrix(trackName, id)
    IN /\ id \in DOMAIN activeModules =>
            Cardinality(LiveOf(id)) =
              m.rows * m.cols - Cardinality(ValidExcluded(m.rows, m.cols, m.excludedCells))
       /\ \A i \in LiveOf(id), k \in 1..Len(ctor) :
            ctor[k].name # "matrix" => GotCall(i, ctor[k], "ctor")

\* C6: after a track is activated, operations not interleaved, eventually all
\* has settled and every live instance of every placement has received each
\* non-matrix constructor call with its declared option values.
C6_CtorCallsDelivered ==
  \A trackName \in {"A", "B"} :
    Activated(trackName) ~> (Quiescent /\ (Activated(trackName) => CtorDelivered(trackName)))

\* the Intro scenario: 3 live instances, each called setColor({color: "#ff0000"})
C6_Witness ==
  /\ Activated("A") /\ Quiescent
  /\ Cardinality(LiveOf("a1")) = 3
  /\ \A i \in LiveOf("a1") :
       \E n \in 1..Len(insts[i].calls) :
         /\ insts[i].calls[n].name = "setColor"
         /\ insts[i].calls[n].options = << << "color", "#ff0000" >> >>

\* the message this step receives
Receives(msg) == hist' = Append(hist, msg)

\* the calls instance i gets in this step
NewCalls(i) == SubSeq(insts'[i].calls, Len(insts[i].calls) + 1, Len(insts'[i].calls))

\* C7: with a track active and every placement materialised (operations not
\* interleaved), a trigger on channel c invokes on every live instance of a
\* placement exactly the calls its method list for c names, in order, and
\* nothing on the instances of a placement with no method list for c.
C7_TriggerFanOut ==
  [][ \A c \in Channels :
        ( /\ Receives([type |-> "channel-trigger", arg |-> c])
          /\ activeTrack # Null
          /\ \A id \in PlacementIds(activeTrack) : id \in DOMAIN grid )
        => \A id \in PlacementIds(activeTrack) : \A i \in LiveOf(id) :
             LET methods == ChannelMethods(FindTrack(St, activeTrack), id, c)
                 called == NewCalls(i)
             IN /\ Len(called) = Len(methods)
                /\ \A k \in 1..Len(methods) :
                     called[k].name = methods[k].name /\ called[k].src = c ]_vars

\* channel "3" has just reached the 3 instances of a1 and not the one of a2
C7_Witness ==
  /\ hist # <<>> /\ hist[Len(hist)] = [type |-> "channel-trigger", arg |-> "3"]
  /\ activeTrack = "A" /\ Quiescent
  /\ Cardinality(LiveOf("a1")) = 3
  /\ \A i \in LiveOf("a1") :
       insts[i].calls[Len(insts[i].calls)].name = "methodA"
         /\ insts[i].calls[Len(insts[i].calls)].src = "3"
  /\ LiveOf("a2") # {}
  /\ \A i \in LiveOf("a2") : insts[i].calls = <<>>

\* placement i of the track has a non-empty method list on channel c
HasChannel(track, i, c) ==
  /\ track.modules[i].id \in DOMAIN track.modulesData
  /\ c \in DOMAIN track.modulesData[track.modules[i].id].methods
  /\ track.modulesData[track.modules[i].id].methods[c] # <<>>

\* C8: the map built for a track has as keys exactly the channels on which
\* some placement has a non-empty method list, and under each key, in
\* placement order, one entry for exactly the placements that have one.
C8_HandlerMap ==
  (hist # <<>> /\ hist[1].type = "build") =>
    LET track == userData[1]
        n == Len(track.modules)
    IN /\ DOMAIN activeChannelHandlers =
            { c \in Channels : \E i \in 1..n : HasChannel(track, i, c) }
       /\ \A c \in DOMAIN activeChannelHandlers :
            LET idx == SelectSeq([i \in 1..n |-> i], LAMBDA i : HasChannel(track, i, c))
            IN activeChannelHandlers[c] =
                 [ k \in 1..Len(idx) |->
                     [ instanceId |-> track.modules[idx[k]].id,
                       moduleType |-> track.modules[idx[k]].type ] ]

\* P1 maps channel "3", P2 has only an empty list: the map is {"3": [P1]}
C8_Witness ==
  /\ hist # <<>> /\ hist[1].type = "build"
  /\ Len(userData[1].modules) = 2
  /\ HasChannel(userData[1], 1, "3")
  /\ userData[1].modules[2].id \in DOMAIN userData[1].modulesData
  /\ "4" \in DOMAIN userData[1].modulesData[userData[1].modules[2].id].methods
  /\ ~\E c \in Channels : HasChannel(userData[1], 2, c)
  /\ DOMAIN activeChannelHandlers = {"3"}
  /\ Len(activeChannelHandlers["3"]) = 1

CatalogNames == { userData[i].name : i \in 1..Len(userData) }

\* this step receives a message that deactivates the active track and does
\* nothing else
PureDeactivation ==
  /\ activeTrack # Null
  /\ \/ Receives([type |-> "set-activate", arg |-> Null])
     \/ \E x \in TrackNames \ CatalogNames : Receives([type |-> "track-activate", arg |-> x])

\* this step receives a message that deactivates the active track
Deactivation ==
  \/ PureDeactivation
  \/ /\ activeTrack # Null
     /\ \E x \in CatalogNames \ {activeTrack} : Receives([type |-> "track-activate", arg |-> x])

\* C9: a deactivation calls destroy exactly once on every instance the
\* registry holds (and on no other), whether or not some destroy throws, and
\* ends with no active track, an empty registry and an empty handler map.
C9_DeactivateDestroysAll ==
  [][ /\ Deactivation =>
           \A i \in 1..Len(insts) :
             insts'[i].destroyCalls =
               insts[i].destroyCalls + (IF i \in Registered THEN 1 ELSE 0)
      /\ PureDeactivation =>
           /\ activeTrack' = Null
           /\ activeModules' = EmptyMap
           /\ activeChannelHandlers' = EmptyMap
           /\ isDeactivating' = FALSE ]_vars

\* a deactivation just ran in which one destroy threw and the others did not
C9_Witness ==
  /\ lastDeact.n = 1 /\ activeTrack = Null /\ activeModules = EmptyMap
  /\ hist[Len(hist)].type = "set-activate"
  /\ Cardinality(lastDeact.destroyed) = 4
  /\ \A i \in lastDeact.destroyed : insts[i].destroyCalls = 1
  /\ \E i \in lastDeact.destroyed : insts[i].elem # NoSurface
  /\ \E i \in lastDeact.destroyed : insts[i].elem = NoSurface

\* C10 as claimed: track-activate for a name absent from the catalog leaves
\* the active track, the registry, the handler map and the pool unchanged.
C10_UnknownTrackNoOp ==
  [][ \A x \in TrackNames \ CatalogNames :
        Receives([type |-> "track-activate", arg |-> x]) =>
          UNCHANGED << activeTrack, activeModules, activeChannelHandlers, pool >> ]_vars

\* C10 amended: track-activate for a name absent from the catalog throws
\* nothing and starts no activation; with no track active it changes nothing,
\* with a track active it deactivates it.
C10_UnknownTrackDeactivates ==
  [][ \A x \in TrackNames \ CatalogNames :
        Receives([type |-> "track-activate", arg |-> x]) =>
          /\ UNCHANGED << rejections, acts, microtasks, loadWaiters, readySignals >>
          /\ IF activeTrack = Null
             THEN UNCHANGED << activeTrack, activeModules, activeChannelHandlers, pool, insts, dom >>
             ELSE /\ activeTrack' = Null
                  /\ activeModules' = EmptyMap
                  /\ activeChannelHandlers' = EmptyMap ]_vars

\* an unknown name arrived while track A was active with its instances
C10_Witness ==
  /\ Len(hist) >= 2
  /\ hist[Len(hist)] = [type |-> "track-activate", arg |-> "X"]
  /\ lastDeact.n = 1 /\ lastDeact.track = "A" /\ lastDeact.destroyed # {}
  /\ activeTrack = Null

\* the handler map the catalog gives the active track
MapOfActive == BuildChannelHandlerMap(FindTrack(St, activeTrack))

\* C11: a channel trigger for a channel with no mapped target in the active
\* track, or one arriving while no track is active, throws nothing, invokes
\* no module method and leaves the active track, the registry and the pool
\* unchanged.
C11_UnmappedTriggerNoOp ==
  [][ \A c \in Channels :
        ( /\ Receives([type |-> "channel-trigger", arg |-> c])
          /\ (activeTrack = Null \/ c \notin DOMAIN MapOfActive) )
        => UNCHANGED << rejections, insts, activeTrack, activeModules, pool,
                        dom, surfaces, microtasks, rafCallbacks, loadWaiters >> ]_vars

\* channel "4", which track B maps nowhere, was triggered with B materialised
C11_Witness ==
  /\ hist # <<>> /\ hist[Len(hist)] = [type |-> "channel-trigger", arg |-> "4"]
  /\ activeTrack = "B" /\ Quiescent
  /\ LiveOf("b1") # {}
  /\ "4" \notin DOMAIN activeChannelHandlers

\* C12: the cached handler map is empty or is the map of the active track,
\* and it is empty whenever no track is active.
C12_HandlerMapOfActiveTrack ==
  /\ activeTrack = Null => activeChannelHandlers = EmptyMap
  /\ activeTrack # Null =>
       activeChannelHandlers = EmptyMap \/ activeChannelHandlers = MapOfActive

\* C13: when a method invocation throws on one instance, the method is still
\* invoked on every other instance of the placement, the remaining calls of
\* the batch still run, and the channel trigger that started the batch
\* completes without the failure reaching its caller.
C13_MethodFailureContained ==
  [][ \A c \in Channels :
        ( /\ Receives([type |-> "channel-trigger", arg |-> c])
          /\ activeTrack # Null
          /\ \A id \in PlacementIds(activeTrack) : id \in DOMAIN grid )
        => /\ rejections' = rejections
           /\ \A id \in PlacementIds(activeTrack) : \A i \in LiveOf(id) :
                [ k \in 1..Len(NewCalls(i)) |-> NewCalls(i)[k].name ] =
                  LET methods == ChannelMethods(FindTrack(St, activeTrack), id, c)
                  IN [ k \in 1..Len(methods) |-> methods[k].name ] ]_vars

\* the number of instances the catalog declares for a placement
DeclaredCount(trackName, id) ==
  LET m == DeclaredMatrix(trackName, id)
      r == IF m.rows = 0 THEN 1 ELSE m.rows
      c == IF m.cols = 0 THEN 1 ELSE m.cols
      E == IF m.kind = "obj" THEN m.excludedCells ELSE <<>>
  IN r * c - Cardinality(ValidExcluded(r, c, E))

\* the last activation sent its ready signal; the placements whose load
\* failed hold nothing, every other placement holds its declared grid
FailuresIsolated(trackName) ==
  LET k == Len(acts)
  IN /\ k > 0 /\ acts[k].track = trackName
     /\ k \in SeqToSet(readySignals)
     /\ \A id \in PlacementIds(trackName) :
          IF id \in acts[k].failed
          THEN LiveOf(id) = {} /\ Get(activeModules, id, <<>>) = <<>>
          ELSE /\ id \in DOMAIN activeModules
               /\ SeqToSet(activeModules[id]) = LiveOf(id)
               /\ Cardinality(LiveOf(id)) = DeclaredCount(trackName, id)

\* C14: when the module of one placement fails to load during an activation
\* (operations not interleaved), eventually all has settled with that
\* placement holding no live instance, every other placement of the track
\* materialised and the ready signal of the activation sent.
C14_LoadFailureIsolated ==
  \A trackName \in {"A", "B"} :
    Activated(trackName) ~> (Quiescent /\ (Activated(trackName) => FailuresIsolated(trackName)))

\* the load of a1's module failed: a1 holds nothing, a2 is materialised and
\* the ready signal was sent
C14_Witness ==
  /\ Activated("A") /\ Quiescent
  /\ acts[Len(acts)].failed = {"a1"}
  /\ LiveOf("a1") = {} /\ "a1" \notin DOMAIN activeModules
  /\ Cardinality(LiveOf("a2")) = 1 /\ Len(activeModules["a2"]) = 1
  /\ Len(acts) \in SeqToSet(readySignals)

Started(t) == Get(loads.started, t, 0)

Failed(t) == Get(loads.failed, t, 0)

\* C15: a failed load leaves no cache entry and the next request starts a
\* new load; while a load is pending and after it succeeded no other load of
\* the type is started: the loads started are the failed ones plus the cached
\* one, whoever waits for a type waits on its one pending load, and a loaded
\* entry stays.
C15_FailedLoadNotCached ==
  [][ \A t \in ModuleFiles :
        /\ Started(t)' = Failed(t)' + (IF t \in DOMAIN moduleClassCache' THEN 1 ELSE 0)
        /\ Failed(t)' > Failed(t) => t \notin DOMAIN moduleClassCache'
        /\ Get(loadWaiters', t, <<>>) # <<>> =>
             t \in DOMAIN moduleClassCache' /\ moduleClassCache'[t] = "pending"
        /\ (t \in DOMAIN moduleClassCache /\ moduleClassCache[t] = "loaded") =>
             /\ t \in DOMAIN moduleClassCache' /\ moduleClassCache'[t] = "loaded"
             /\ Started(t)' = Started(t)
        /\ (t \in DOMAIN moduleClassCache /\ moduleClassCache[t] = "pending") =>
             Started(t)' = Started(t) ]_vars

\* the first load of T1 failed, the second succeeded, and a later request
\* found the cached class: two loads were started in all
C15_Witness ==
  /\ Failed("T1") = 1 /\ Started("T1") = 2
  /\ "T1" \in DOMAIN moduleClassCache /\ moduleClassCache["T1"] = "loaded"
  /\ Len(acts) = 3 /\ Quiescent
  /\ LiveOf("b1") # {}

Entry == optIn[1].entry

Out == optOut[1]

Draws == 0..(RandDen - 1)

\* randomRange is a pair of numbers
NumericRange == IsPair(Entry.randomRange) /\ \A i \in 1..2 : IsNumber(Entry.randomRange.items[i])

\* an option as buildMethodOptions resolves it from line 36 on: it has a name
\* and no randomValues list to draw from
PlainOption ==
  /\ Entry.name # Null
  /\ ~(Entry.randomValues.kind = "arr" /\ Len(Entry.randomValues.items) > 0)

Between(x, lo, hi) == IsNumber(x) /\ lo.v <= x.v /\ x.v <= hi.v

\* C18: an option with a numeric randomRange [min, max], min > max, is
\* resolved without a throw to a value v with max <= v <= min, by
\* executeMethods and by buildMethodOptions, whatever the random source returns.
C18_SwappedRange ==
  (optOut # <<>> /\ NumericRange /\ Entry.randomRange.items[1].v > Entry.randomRange.items[2].v) =>
    LET min == Entry.randomRange.items[1]
        max == Entry.randomRange.items[2]
    IN \A k \in Draws :
         /\ Between(Out.projector[k], max, min)
         /\ PlainOption =>
              /\ Out.shared[k].set /\ ~Out.shared[k].threw
              /\ Between(Out.shared[k].value, max, min)

\* randomRange [1, -1], the swap callback throwing: both ends are reached
C18_Witness ==
  /\ optOut # <<>> /\ PlainOption
  /\ Entry.randomRange = [kind |-> "arr", items |-> << Half(2), Half(-2) >>]
  /\ optIn[1].cb = "throws" /\ ~optIn[1].cache.on
  /\ Out.projector[0] = Half(-2) /\ Out.projector[RandDen - 1] = Half(2)
  /\ Out.shared[0].value = Half(-2) /\ Out.shared[RandDen - 1].value = Half(2)

\* C19: with integer bounds min <= max the value is an integer v with
\* min <= v <= max for every r, and min and max are both possible outcomes
\* (for buildMethodOptions: except the value a no-repeat cache remembers).
C19_IntegerRange ==
  ( /\ optOut # <<>> /\ NumericRange
    /\ IsInteger(Entry.randomRange.items[1]) /\ IsInteger(Entry.randomRange.items[2])
    /\ Entry.randomRange.items[1].v <= Entry.randomRange.items[2].v ) =>
    LET min == Entry.randomRange.items[1]
        max == Entry.randomRange.items[2]
        cache == optIn[1].cache
    IN /\ \A k \in Draws : IsInteger(Out.projector[k]) /\ Between(Out.projector[k], min, max)
       /\ \A x \in {min, max} : \E k \in Draws : Out.projector[k] = x
       /\ PlainOption =>
            /\ \A k \in Draws :
                 /\ Out.shared[k].set /\ ~Out.shared[k].threw
                 /\ IsInteger(Out.shared[k].value) /\ Between(Out.shared[k].value, min, max)
            /\ \A x \in {min, max} :
                 \/ \E k \in Draws : Out.shared[k].value = x
                 \/ cache.on /\ min # max /\ cache.rrInt = x

\* randomRange [-1, 1]: -1 and 1 are both drawn; with 0 remembered by the
\* no-repeat cache, buildMethodOptions never draws 0
C19_Witness ==
  /\ optOut # <<>> /\ PlainOption
  /\ Entry.randomRange = [kind |-> "arr", items |-> << Half(-2), Half(2) >>]
  /\ optIn[1].cache.on /\ optIn[1].cache.rrInt = Half(0)
  /\ Out.projector[0] = Half(-2) /\ Out.projector[RandDen - 1] = Half(2)
  /\ \E k \in Draws : Out.projector[k] = Half(0)
  /\ \A k \in Draws : Out.shared[k].value \in { Half(-2), Half(2) }

\* C20: an option with no randomRange (or one that is not a pair), or with a
\* randomRange that has a non-numeric bound, is resolved to its declared value
\* without a throw.
C20_DeclaredValue ==
  (optOut # <<>> /\ ~NumericRange) =>
    \A k \in Draws :
      /\ Out.projector[k] = Entry.value
      /\ PlainOption =>
           /\ Out.shared[k].set /\ ~Out.shared[k].threw
           /\ Out.shared[k].value = Entry.value

\* randomRange [0, "x"] with the callback throwing: the declared 0.5 is kept
C20_Witness ==
  /\ optOut # <<>> /\ PlainOption
  /\ Entry.randomRange = [kind |-> "arr", items |-> << Half(0), Str >>]
  /\ Entry.value = Half(1) /\ optIn[1].cb = "throws"
  /\ \A k \in Draws : Out.projector[k] = Half(1) /\ Out.shared[k].value = Half(1)

\* rows and cols are whole numbers from 1 to 5
InGrid(mo) ==
  /\ IsInteger(mo.rows) /\ Between(mo.rows, Whole(1), Whole(5))
  /\ IsInteger(mo.cols) /\ Between(mo.cols, Whole(1), Whole(5))

\* C21: whatever value the matrix option has (array, object, missing, zero,
\* negative, above 5, non-numeric), the rows and cols derived from it are
\* integers between 1 and 5, in updateMatrix as in parseMatrixOptions, so no
\* grid of more than 5 by 5 cells is laid out.
C21_GridBounded ==
  optOut # <<>> =>
    /\ InGrid(Out.projector)
    /\ InGrid(Out.shared)
    /\ Out.cells <= 25

\* the lines of the messages sent so far
SentLines(sent) == UNION { SeqToSet(sent[n]) : n \in 1..Len(sent) }

\* C22: a debug-log message is sent only while the debug view is open and
\* carries all the lines queued since the flush timer was started; a line
\* produced while the view is closed is dropped; closing the view empties the
\* queue and cancels the timer; so lines wait only while the view is open with
\* a flush pending, and no line produced while closed or discarded by a close
\* is ever sent.
C22_DebugLogWhileOpen ==
  [][ /\ debugSent' # debugSent =>
           /\ debugOverlayActive /\ debugLogTimeout /\ debugLogQueue # <<>>
           /\ debugSent' = Append(debugSent, debugLogQueue)
           /\ debugLogQueue' = <<>> /\ ~debugLogTimeout'
      /\ Len(debugLines') > Len(debugLines) =>
           /\ debugSent' = debugSent
           /\ IF debugOverlayActive
              THEN debugLogQueue' = Append(debugLogQueue, Len(debugLines')) /\ debugLogTimeout'
              ELSE UNCHANGED << debugLogQueue, debugLogTimeout >>
      /\ Receives([type |-> "debug-overlay-visibility", arg |-> "closed"]) =>
           /\ debugLogQueue' = <<>> /\ ~debugLogTimeout' /\ ~debugOverlayActive'
           /\ debugSent' = debugSent
      /\ (debugLogQueue' # <<>> \/ debugLogTimeout') =>
           debugOverlayActive' /\ debugLogTimeout' /\ debugLogQueue' # <<>>
      /\ \A l \in SentLines(debugSent') : debugLines'[l].open
      /\ \A l \in SeqToSet(debugLogQueue) \ SeqToSet(debugLogQueue') :
           l \in SentLines(debugSent') <=> debugSent' # debugSent ]_vars

\* line 1 was queued and discarded by closing the view; lines 2 and 3, queued
\* in one timer window after reopening, left together in one message
C22_Witness ==
  /\ Len(hist) = 3
  /\ hist[2] = [type |-> "debug-overlay-visibility", arg |-> "closed"]
  /\ Len(debugLines) = 3 /\ debugLines[1].open
  /\ debugSent = << << 2, 3 >> >>
  /\ debugLogQueue = <<>> /\ ~debugLogTimeout

HasMatrixCall(methods) == \E k \in 1..Len(methods) : IsMatrix(methods[k])

\* the names of the non-matrix calls of a list that a class implements
OtherNames(methods, type) ==
  LET has == SelectSeq(methods, LAMBDA m : NotMatrix(m) /\ m.name \in ClassMethods(type))
  IN [ k \in 1..Len(has) |-> has[k].name ]

\* C23: a batch with a matrix call invokes nothing in the step that starts it
\* (the instances its placement held then are destroyed uncalled); whatever is
\* invoked while it runs is invoked after the frame has built the new
\* instances, and on those only; and when the batch goes on after the matrix
\* step, each new instance receives its non-matrix calls, in order.
C23_MatrixFirst ==
  [][ /\ \A c \in Channels :
           (Receives([type |-> "channel-trigger", arg |-> c]) /\ activeTrack # Null) =>
             \A id \in PlacementIds(activeTrack) :
               HasMatrixCall(ChannelMethods(FindTrack(St, activeTrack), id, c)) =>
                 \A i \in 1..Len(insts) : insts[i].placement = id => NewCalls(i) = <<>>
      /\ (microtasks # <<>> /\ HasMatrixCall(JobMethods(St, Head(microtasks)))) =>
           LET job == Head(microtasks)
           IN /\ \A i \in 1..Len(insts) :
                   NewCalls(i) # <<>> =>
                     job.kind \in {"matStore", "execOther"} /\ i \in SeqToSet(job.made)
              /\ job.kind = "execOther" =>
                   \A i \in SeqToSet(job.made) :
                     /\ [ k \in 1..Len(NewCalls(i)) |-> NewCalls(i)[k].name ] =
                          OtherNames(JobMethods(St, job), insts[i].type)
                     /\ \A k \in 1..Len(NewCalls(i)) : NewCalls(i)[k].src = job.src ]_vars

\* the messages that select or clear the active track
Selections == SelectSeq(hist, LAMBDA m : m.type # "channel-trigger")

\* the track the last of them asked for, if it is in the catalog
Selected ==
  IF Selections = <<>> THEN Null
  ELSE LET m == Selections[Len(Selections)]
       IN IF m.type = "track-activate" /\ m.arg \in CatalogNames THEN m.arg ELSE Null

\* C24: when everything has settled, a track that was deactivated (by
\* set-activate, by an unknown name or by the activation of another track) and
\* not selected again has no live instance, and the registry holds none of its
\* instances, whenever the deactivation arrived.
C24_NoInstanceSurvives ==
  Quiescent =>
    \A i \in 1..Len(insts) :
      insts[i].track # Selected => ~Live(i) /\ i \notin Registered

\* this step has destroyed once more each instance the registry held for the
\* placement and has left a materialisation of the placement under way
Rematerialised(id) ==
  /\ \A i \in SeqToSet(Get(activeModules, id, <<>>)) :
       insts'[i].destroyCalls = insts[i].destroyCalls + 1
  /\ \E job \in Suspended(loadWaiters', microtasks') :
       job.kind = "matAfterLoad" /\ job.id = id

\* C25: a step that starts a batch with a matrix call for a placement calls
\* destroy once on every instance the placement holds, whether or not a
\* destroy throws, and goes on to build the new grid.
C25_DestroyAllThenBuild ==
  [][ /\ \A c \in Channels :
           (Receives([type |-> "channel-trigger", arg |-> c]) /\ activeTrack # Null) =>
             \A id \in PlacementIds(activeTrack) :
               HasMatrixCall(ChannelMethods(FindTrack(St, activeTrack), id, c)) =>
                 Rematerialised(id)
      /\ ( /\ microtasks # <<>> /\ Head(microtasks).kind = "execStart"
           /\ HasMatrixCall(JobMethods(St, Head(microtasks))) ) =>
           Rematerialised(Head(microtasks).id) ]_vars

\* C26: a trigger on a channel whose method list names a method the instances
\* of a materialised placement do not have fails nothing: no promise is
\* rejected, and every instance of the placement receives, in order, exactly
\* the calls of the list that its class implements.
C26_MissingMethodSkipped ==
  [][ \A c \in Channels :
        ( /\ Receives([type |-> "channel-trigger", arg |-> c])
          /\ activeTrack # Null )
        => \A id \in PlacementIds(activeTrack) :
             LET methods == ChannelMethods(FindTrack(St, activeTrack), id, c)
                 type == ModuleTypeOf(St, id)
             IN ( /\ id \in DOMAIN activeModules /\ ~HasMatrixCall(methods)
                  /\ \E k \in 1..Len(methods) : methods[k].name \notin ClassMethods(type) )
                => /\ type \notin FragileTypes => rejections' = rejections
                   /\ \A i \in SeqToSet(activeModules[id]) :
                        [ k \in 1..Len(NewCalls(i)) |-> NewCalls(i)[k].name ] =
                          OtherNames(methods, insts[i].type) ]_vars

\* channel "4" reached the two instances of r2: methodC, which they lack, was
\* skipped and setColor was invoked on both
C26_Witness ==
  /\ hist # <<>> /\ hist[Len(hist)] = [type |-> "channel-trigger", arg |-> "4"]
  /\ activeTrack = "B" /\ Quiescent /\ rejections = 0
  /\ "r2" \in DOMAIN activeModules /\ Len(activeModules["r2"]) = 2
  /\ \A i \in SeqToSet(activeModules["r2"]) :
       /\ Live(i) /\ insts[i].calls # <<>>
       /\ \A k \in 1..Len(insts[i].calls) : insts[i].calls[k].name = "setColor"
       /\ insts[i].calls[Len(insts[i].calls)].src = "4"

\* C27: once destroy() has been called on an instance, no step of the instance
\* (a method invoked later, a timer it started earlier) changes the style of
\* the surface it was bound to.
C27_NoMutationAfterDestroy ==
  [][ destroyed => style' = style ]_vars

\* the retained cells of a grid in lexicographic order of (row, col)
Before(a, b) == a[1] < b[1] \/ (a[1] = b[1] /\ a[2] < b[2])

Retained(g) ==
  { rc \in (1..g.rows) \X (1..g.cols) : CellKey(rc[1], rc[2]) \notin SeqToSet(g.excludedCells) }

\* the k-th instance of a placement sits on a surface styled for cell rc
StyledFor(g, k, rc, css) ==
  /\ Cardinality({ x \in Retained(g) : Before(x, rc) }) = k - 1
  /\ css.width.num * g.cols = 100 * css.width.den
  /\ css.height.num * g.rows = 100 * css.height.den
  /\ css.top.num * g.rows = (rc[1] - 1) * 100 * css.top.den
  /\ css.left.num * g.cols = (rc[2] - 1) * 100 * css.left.den

\* C28: the instance list of a placement follows the retained cells in
\* row-major order (rows outer, columns inner, from 1), and the surface of the
\* instance at (row, col) has width 100/cols, height 100/rows,
\* top (row-1)*100/rows and left (col-1)*100/cols, in percent.
C28_GridGeometry ==
  \A id \in DOMAIN grid \cap DOMAIN activeModules :
    LET g == grid[id]
        list == activeModules[id]
    IN list # <<>> =>
         /\ Len(list) = Cardinality(Retained(g))
         /\ \A k \in 1..Len(list) :
              \E rc \in Retained(g) : StyledFor(g, k, rc, surfaces[insts[list[k]].elem].cssText)

C28_Witness ==
  \E id \in DOMAIN grid \cap DOMAIN activeModules :
    /\ grid[id].rows = 2 /\ grid[id].cols = 2
    /\ Len(activeModules[id]) = 3
    /\ C28_GridGeometry

\* the bucket of a type, empty when the pool has none
Bucket(p, t) == IF t \in DOMAIN p THEN p[t] ELSE <<>>

OtherBucketsKept(t) ==
  \A u \in (DOMAIN pool \cup DOMAIN pool') \ {t} : Bucket(pool', u) = Bucket(pool, u)

\* what the last call recorded in hist' did to the pool
PoolStep ==
  LET call == hist'[Len(hist')]
  IN /\ call.type = "getElement" =>
          LET b == Bucket(pool, call.arg)
          IN /\ OtherBucketsKept(call.arg)
             /\ IF b # <<>>
                THEN /\ call.ret \in SeqToSet(b)
                     /\ surfaces[call.ret].cls = call.arg
                     /\ call.ret \notin SeqToSet(Bucket(pool', call.arg))
                     /\ SeqToSet(Bucket(pool', call.arg)) = SeqToSet(b) \ {call.ret}
                     /\ surfaces' = surfaces
                ELSE /\ call.ret = Len(surfaces) + 1
                     /\ Len(surfaces') = Len(surfaces) + 1
                     /\ surfaces'[call.ret].cls = call.arg
                     /\ pool' = pool
     /\ call.type = "releaseElement" =>
          LET t == surfaces[call.arg].cls
          IN /\ OtherBucketsKept(t)
             /\ Bucket(pool', t) = Append(Bucket(pool, t), call.arg)
             /\ surfaces' = surfaces

\* between calls i and j no call touched the bucket of type t
Untouched(t, i, j) ==
  \A k \in (i + 1)..(j - 1) :
    /\ hist[k].type = "getElement" => hist[k].arg # t
    /\ hist[k].type = "releaseElement" => surfaces[hist[k].arg].cls # t

\* the surface released last for a type is the next one acquired for it
LastReleasedFirst ==
  \A i, j \in 1..Len(hist) :
    ( /\ i < j
      /\ hist[i].type = "releaseElement"
      /\ hist[j].type = "getElement"
      /\ surfaces[hist[i].arg].cls = hist[j].arg
      /\ Untouched(hist[j].arg, i, j) ) => hist[j].ret = hist[i].arg

\* C29: getElement for a type takes an idle surface out of that type's bucket
\* whenever the bucket is not empty and builds a new surface only when it is
\* empty; releaseElement puts the surface in the bucket of its own type; the
\* surface released last for a type is the next one acquired for it.
C29_PoolLifo ==
  [][ hist' # hist => (PoolStep /\ LastReleasedFirst') ]_vars

\* two surfaces of one type released, then the later one acquired again while
\* the other stays idle
C29_Witness ==
  /\ Len(hist) = 5
  /\ hist[3].type = "releaseElement" /\ hist[4].type = "releaseElement"
  /\ hist[5].type = "getElement" /\ hist[5].ret = hist[4].arg
  /\ surfaces[hist[3].arg].cls = hist[5].arg
  /\ Bucket(pool, hist[5].arg) = << hist[3].arg >>

\* C30: within one dispatch the options of a method call are resolved once:
\* all instances of the placement that are called in a step receive the same
\* calls with the same resolved option values, randomized ones included; values
\* that differ belong to different dispatches.
C30_ResolvedOncePerDispatch ==
  [][ \A i, j \in DOMAIN insts :
        ( /\ insts[i].placement = insts[j].placement
          /\ NewCalls(i) # <<>>
          /\ NewCalls(j) # <<>> ) => NewCalls(i) = NewCalls(j) ]_vars

\* two dispatches of channel "4" reached the two instances of r2: within each
\* dispatch both got the same randomized size, and the two dispatches differ
C30_Witness ==
  /\ "r2" \in DOMAIN activeModules /\ Len(activeModules["r2"]) = 2
  /\ LET a == insts[activeModules["r2"][1]].calls
         b == insts[activeModules["r2"][2]].calls
     IN /\ Len(a) = 2 /\ a = b
        /\ a[1].src = "4" /\ a[2].src = "4"
        /\ a[1].options # a[2].options

\* how many times instance i was called with the method by a constructor batch
CtorCallCount(i, method) ==
  Cardinality({ n \in 1..Len(insts[i].calls) :
                  insts[i].calls[n].name = method.name /\ insts[i].calls[n].src = "ctor" })

\* C31: once the activation of a track has settled, every live instance of a
\* placement has been called exactly once with each non-matrix constructor
\* call of the placement (with distinct method names this is one invocation
\* per name).
C31_CtorCallsOnce ==
  \A trackName \in {"A", "B"} :
    (Activated(trackName) /\ Quiescent) =>
      \A p \in 1..Len(FindTrack(St, trackName).modules) :
        LET id == FindTrack(St, trackName).modules[p].id
            ctor == ConstructorMethods(FindTrack(St, trackName), id)
        IN \A i \in LiveOf(id), k \in 1..Len(ctor) :
             (ctor[k].name # "matrix" /\ HasMethod(insts[i].type, ctor[k].name))
               => CtorCallCount(i, ctor[k]) = 1

\* the instances built for the preview of a module
PreviewInsts(moduleName) ==
  { i \in 1..Len(insts) : insts[i].placement = PreviewKey(moduleName) }

\* C32: when preview-module(M) was followed by clear-preview and both have
\* settled, no preview instance of M is registered, none is left undestroyed,
\* and no surface is bound to one.
C32_PreviewCleared ==
  \A moduleName \in ModuleFiles :
    ( /\ Len(hist) >= 2
      /\ hist[Len(hist) - 1] = [type |-> "preview-module", arg |-> moduleName]
      /\ hist[Len(hist)] = [type |-> "clear-preview", arg |-> Null]
      /\ Quiescent )
    => /\ PreviewKey(moduleName) \notin DOMAIN activeModules
       /\ \A i \in PreviewInsts(moduleName) :
            insts[i].destroyCalls > 0 /\ insts[i].elem = NoSurface

\* C33: from the handling of a set-activate message until the next
\* track-activate message is received, no track is active.
C33_NoTrackAfterSetActivate ==
  (hist # <<>> /\ hist[Len(hist)].type = "set-activate") => activeTrack = Null

\* C34: once the activation of track A has settled, every placement whose
\* module loaded has at least one live instance, also when its constructor
\* list holds no matrix call, and every non-matrix constructor call has
\* reached each of its live instances.
C34_DefaultGrid ==
  (Activated("A") /\ Quiescent) =>
    \A id \in PlacementIds("A") \cap DOMAIN activeModules :
      /\ LiveOf(id) # {}
      /\ \A i \in LiveOf(id) :
           LET ctor == ConstructorMethods(FindTrack(St, "A"), id)
           IN \A k \in 1..Len(ctor) : ctor[k].name # "matrix" => GotCall(i, ctor[k], "ctor")

\* C35: an option with a non-empty randomValues list is resolved by
\* buildMethodOptions to an element of that list, whatever the list (repeated
\* values included) and whatever the no-repeat cache holds.
C35_PickedFromList ==
  ( /\ optOut # <<>>
    /\ optIn[1].entry.name # Null
    /\ optIn[1].entry.randomValues.kind = "arr"
    /\ optIn[1].entry.randomValues.items # <<>> )
  => \A k \in 0..(RandDen - 1) :
       /\ optOut[1].shared[k].set
       /\ optOut[1].shared[k].value \in SeqToSet(optIn[1].entry.randomValues.items)

\* the entry declares an integer range with more than one value and the call
\* was given a no-repeat cache and key prefix
IntegerRangeNoRepeat ==
  /\ PlainOption /\ NumericRange
  /\ IsInteger(Entry.randomRange.items[1]) /\ IsInteger(Entry.randomRange.items[2])
  /\ Entry.randomRange.items[1] # Entry.randomRange.items[2]
  /\ optIn[1].cache.on

RangeLo == IF Entry.randomRange.items[1].v <= Entry.randomRange.items[2].v
           THEN Entry.randomRange.items[1] ELSE Entry.randomRange.items[2]

RangeHi == IF Entry.randomRange.items[1].v <= Entry.randomRange.items[2].v
           THEN Entry.randomRange.items[2] ELSE Entry.randomRange.items[1]

\* C36: with a no-repeat cache and key prefix supplied, two consecutive
\* resolutions of one integer-range option whose range holds more than one
\* value give different values, and each value lies within [min, max].
C36_NoRepeatInteger ==
  (Len(optOut) = 2 /\ IntegerRangeNoRepeat) =>
    \A k \in Draws, n \in Draws :
      LET first == optOut[1].shared[k].value
          second == optOut[2].shared[k][n].value
      IN /\ second # first
         /\ Between(first, RangeLo, RangeHi)
         /\ Between(second, RangeLo, RangeHi)
         /\ IsInteger(second)

\* the second draw repeated the first value at the top of the range and was
\* moved to min; at another draw it repeated a lower value and was moved up
C36_Witness ==
  /\ Len(optOut) = 2 /\ IntegerRangeNoRepeat
  /\ optIn[1].cache.rrInt = Undefined
  /\ \E k \in Draws :
       /\ optOut[1].shared[k].value = RangeHi
       /\ RandomInteger(k, RangeLo, RangeHi) = RangeHi
       /\ optOut[2].shared[k][k].value = RangeLo
  /\ \E k \in Draws :
       /\ optOut[1].shared[k].value = RangeLo
       /\ optOut[2].shared[k][k].value.v = RangeLo.v + Unit

\* the messages that carry line l
Carriers(l) == { n \in 1..Len(debugSent) : l \in SeqToSet(debugSent[n]) }

\* C37: a non-empty queue always has a flush timer pending and never more than
\* one timer is pending; when the timer fires with the view open, all the
\* lines queued leave in one message, and no line is carried by two messages
\* or stays queued after it was sent.
C37_QueuedLinesFlushed ==
  [][ /\ debugTimers' <= 1
      /\ debugLogQueue' # <<>> => debugTimers' = 1
      /\ (debugTimers' < debugTimers /\ debugOverlayActive' /\ debugOverlayActive) =>
           /\ debugLogQueue' = <<>>
           /\ \A l \in SeqToSet(debugLogQueue) : l \in SeqToSet(debugSent'[Len(debugSent')])
      /\ \A l \in 1..Len(debugLines') :
           /\ Cardinality(Carriers(l)') <= 1
           /\ ~(Carriers(l)' # {} /\ l \in SeqToSet(debugLogQueue')) ]_vars

\* three lines queued with the view open: the first two left in one message
\* when the timer fired, the third waits with a new timer pending
C37_Witness ==
  /\ debugOverlayActive
  /\ Len(debugLines) = 3 /\ \A l \in 1..3 : debugLines[l].open
  /\ debugSent = << << 1, 2 >> >>
  /\ debugLogQueue = << 3 >> /\ debugTimers = 1

====
